---------------------------- MODULE Spec2Model ----------------------------
(***************************************************************************)
(* AdvancedTimetableOptimizer (src/scheduler_engine.py): the construction  *)
(* of candidate schedules, their evaluation, the genetic search and the    *)
(* multi-solution driver.                                                  *)
(*                                                                         *)
(* Schedule entries are Python dicts: objects with identity.  The model    *)
(* keeps them in `heap` (object id -> fields); an individual is a sequence *)
(* of object ids, so list.copy() and slicing share the dicts, as they do   *)
(* in Python.                                                              *)
(*                                                                         *)
(* Times of day are whole hours 0..23 ('HH:MM' with MM = 00); rates are    *)
(* hundredths (0.8 = 80).  With whole hours every duration is an integer   *)
(* and the fitness is an integer, computed as the code computes it.        *)
(***************************************************************************)
EXTENDS Integers, Sequences, FiniteSets, TLC

VARIABLES
    \* ---- the snapshot read by load_data
    subjects,            \* ids of the Subject rows of the semester
    special_classes,     \* the SpecialClass rows of the semester, in query order
    batches,             \* batch id -> [max_classes_per_day, student_count]
    faculty,             \* faculty id -> [max_hours_per_day, max_hours_per_week]
    \* ---- the optimizer object
    population_size,
    mutation_rate,       \* hundredths
    conflicts,           \* self.conflicts
    \* ---- one call of optimize_with_comprehensive_constraints
    pc,
    heap,                \* object id -> the dict's fields
    heap0,               \* history: each dict's fields when it was constructed
    population,
    fitness_scores,
    generation,
    best_individual,     \* <<>> is None, <<ind>> is the list ind
    best_fitness,
    best_fitness_history,
    new_population,
    result,              \* <<>> until the call returns <<individual, fitness>>
    \* ---- one call of generate_multiple_optimized_solutions
    num_solutions,
    run_index,
    original_mutation_rate,
    original_population_size,
    solutions,
    run_history,         \* history: the fitness each run returned, in run order
    \* ---- one call of enforce_max_classes_per_day on a given list
    schedule,
    adjusted_schedule,
    \* ---- one request to generate_advanced_timetable
    semester_id,         \* 0 when the request carries none
    session,             \* Timetable rows added to db.session, not yet committed
    database,            \* committed Timetable rows, each with its entries and conflicts
    response,            \* HTTP status of the answer, 0 while there is none
    \* ---- the tables written by the review and leave routes
    timetable_reviews,   \* the TimetableReview rows
    faculty_leaves,      \* the FacultyLeave rows, in order of their ids
    \* ---- the environment
    stop_requested       \* a stop signal raised from outside

vars == <<subjects, special_classes, batches, faculty, population_size,
          mutation_rate, conflicts, pc, heap, heap0, population,
          fitness_scores, generation, best_individual, best_fitness,
          best_fitness_history, new_population, result, num_solutions,
          run_index, original_mutation_rate, original_population_size,
          solutions, run_history, schedule, adjusted_schedule,
          semester_id, session, database, response, timetable_reviews,
          faculty_leaves, stop_requested>>

snapshotVars == <<subjects, special_classes, batches, faculty>>
searchVars == <<heap, heap0, population, fitness_scores, generation,
                best_individual, best_fitness, best_fitness_history,
                new_population, result>>
driverVars == <<num_solutions, run_index, original_mutation_rate,
               original_population_size, solutions, run_history>>
enforceVars == <<schedule, adjusted_schedule>>
routeVars == <<semester_id, session, database, response>>
tableVars == <<timetable_reviews, faculty_leaves>>

-----------------------------------------------------------------------------
(* Bounds of the model *)

MaxSpecial == 2
MaxPopulation == 2
MaxGenerations == 2
MaxSolutions == 3
MaxEntries == 3
MaxRouteSpecial == 1
MaxMutated == 2
MaxParentLen == 3
MaxTimetables == 2
MaxReviews == 1
MaxLeaves == 2
MaxDate == 2

-----------------------------------------------------------------------------
(* Program constants *)

GA_MUTATION_RATE == 10
GA_CROSSOVER_RATE == 80
MAX_CLASSES_PER_DAY == 8
FitnessBase == 1000
ExcellentFitness == 900
TournamentSize == 3
EliteDivisor == 10
MutationRateStep == 2
PopulationSizeStep == 5

WORKING_DAYS == <<"Monday", "Tuesday", "Wednesday", "Thursday", "Friday">>

TIME_SLOTS == << <<9, 10>>, <<10, 11>>, <<11, 12>>, <<12, 13>>, <<13, 14>>,
                 <<14, 15>>, <<15, 16>>, <<16, 17>>, <<17, 18>> >>

MIN_CLASSROOM_UTILIZATION == 60
MAX_CLASSROOM_UTILIZATION == 85

weights ==
    [room_conflicts |-> 200, faculty_conflicts |-> 200, batch_conflicts |-> 200,
     lab_conflicts |-> 180, capacity_violations |-> 160, shift_violations |-> 140,
     max_classes_per_day |-> 120, faculty_availability_violations |-> 150,
     special_class_violations |-> 300, lab_duration_violations |-> 100,
     classroom_utilization |-> 50, lab_utilization |-> 60,
     faculty_load_balance |-> 40, elective_sync_violations |-> 70]

\* self.classrooms, self.laboratories: the available venues of the snapshot
classrooms == <<[id |-> 1, capacity |-> 60], [id |-> 2, capacity |-> 120]>>
laboratories == <<[id |-> 1, capacity |-> 30]>>

\* Subject.faculty_id of the snapshot: subject s is taught by faculty s
SubjectFacultyId(s) == s

\* Subject.theory_hours_per_week of the snapshot: the default of the column
theory_hours_per_week(s) == 3

-----------------------------------------------------------------------------
(* Arithmetic and sequence helpers *)

Max2(a, b) == IF a >= b THEN a ELSE b
Min2(a, b) == IF a <= b THEN a ELSE b

RECURSIVE SumSeq(_)
SumSeq(s) == IF s = <<>> THEN 0 ELSE Head(s) + SumSeq(Tail(s))

RECURSIVE SetToSeq(_)
SetToSeq(S) ==
    IF S = {} THEN <<>>
    ELSE LET x == CHOOSE y \in S : TRUE IN <<x>> \o SetToSeq(S \ {x})

MaxOfSeq(s) == CHOOSE m \in {s[k] : k \in DOMAIN s} : \A k \in DOMAIN s : s[k] <= m

Range(s) == {s[k] : k \in DOMAIN s}

SeqsUpTo(S, n) == UNION {[1..k -> S] : k \in 0..n}

-----------------------------------------------------------------------------
(* Candidate construction *)

convert_day_number_to_name(day_number) ==
    CASE day_number = 1 -> "Monday"
      [] day_number = 2 -> "Tuesday"
      [] day_number = 3 -> "Wednesday"
      [] day_number = 4 -> "Thursday"
      [] day_number = 5 -> "Friday"
      [] OTHER -> "Monday"

get_time_shift(hour) == IF hour < 14 THEN "morning" ELSE "evening"

\* Placeholder in the source: every subject and batch get classroom 1.
get_suitable_venue(subject_id, batch_id) == [id |-> 1, type |-> "classroom"]

schedule_lab_sessions == <<>>
schedule_electives_advanced == <<>>
schedule_theory_classes(existing_schedule) == <<>>

\* Step 1 of create_comprehensive_schedule: one fixed entry per SpecialClass.
SpecialEntry(special) ==
    LET venue == get_suitable_venue(special.subject_id, special.batch_id) IN
    [subject_id |-> special.subject_id,
     batch_id   |-> special.batch_id,
     faculty_id |-> SubjectFacultyId(special.subject_id),
     venue_id   |-> venue.id,
     venue_type |-> venue.type,
     day        |-> convert_day_number_to_name(special.day_of_week),
     start_time |-> special.start_time,
     end_time   |-> special.end_time,
     is_fixed   |-> TRUE,
     shift      |-> get_time_shift(special.start_time),
     class_type |-> special.class_type,
     priority   |-> special.priority]

SpecialEntries(specials) == [k \in 1..Len(specials) |-> SpecialEntry(specials[k])]

\* The key of schedule.sort in enforce_max_classes_per_day; FALSE sorts before TRUE.
SortKeyLess(a, b) ==
    \/ a.is_fixed /\ ~b.is_fixed
    \/ a.is_fixed = b.is_fixed /\ a.priority < b.priority

\* list.sort is stable: an entry is inserted after the entries not greater than it.
RECURSIVE InsertSorted(_, _)
InsertSorted(sorted, e) ==
    IF sorted = <<>> THEN <<e>>
    ELSE IF SortKeyLess(e, Head(sorted)) THEN <<e>> \o sorted
    ELSE <<Head(sorted)>> \o InsertSorted(Tail(sorted), e)

RECURSIVE StableSort(_)
StableSort(s) ==
    IF s = <<>> THEN <<>>
    ELSE InsertSorted(StableSort(SubSeq(s, 1, Len(s) - 1)), s[Len(s)])

MaxClassesOf(batch_id) ==
    IF batch_id \in DOMAIN batches THEN batches[batch_id].max_classes_per_day
    ELSE MAX_CLASSES_PER_DAY

\* Placeholder in the source: no entry is ever moved to another day.
reschedule_to_different_day(entry, batch_daily_count, max_classes) == <<>>

DailyCount(count, batch_id, day) ==
    IF <<batch_id, day>> \in DOMAIN count THEN count[<<batch_id, day>>] ELSE 0

Bump(count, batch_id, day) ==
    [k \in DOMAIN count \cup {<<batch_id, day>>} |->
        IF k = <<batch_id, day>> THEN DailyCount(count, batch_id, day) + 1 ELSE count[k]]

FixedOverCapConflict(entry, n, max_classes) ==
    [type |-> "max_classes_exceeded", batch_id |-> entry.batch_id, day |-> entry.day,
     count |-> n, limit |-> max_classes,
     reason |-> "Fixed class caused limit exceeded"]

DroppedConflict(entry) ==
    [type |-> "max_classes_exceeded", subject |-> entry.subject_id,
     batch_id |-> entry.batch_id, day |-> entry.day,
     reason |-> "Could not reschedule within daily limit"]

\* One iteration of the loop of enforce_max_classes_per_day over the sorted list;
\* acc = [adjusted, count, conflicts].
\* A variant of the loop body that treats a fixed entry over the cap like any other.
EnforceStepDroppingFixed(acc, entry) ==
    LET max_classes == MaxClassesOf(entry.batch_id)
        n == DailyCount(acc.count, entry.batch_id, entry.day)
    IN  IF n < max_classes
        THEN [adjusted |-> Append(acc.adjusted, entry),
              count |-> Bump(acc.count, entry.batch_id, entry.day),
              conflicts |-> acc.conflicts]
        ELSE [adjusted |-> acc.adjusted,
              count |-> acc.count,
              conflicts |-> Append(acc.conflicts, DroppedConflict(entry))]

\* A variant of the loop body that keeps a non-fixed entry over the cap.
EnforceStepKeepingAll(acc, entry) ==
    [adjusted |-> Append(acc.adjusted, entry),
     count |-> Bump(acc.count, entry.batch_id, entry.day),
     conflicts |-> acc.conflicts]

EnforceStep(acc, entry) ==
    LET max_classes == MaxClassesOf(entry.batch_id)
        n == DailyCount(acc.count, entry.batch_id, entry.day)
        rescheduled == reschedule_to_different_day(entry, acc.count, max_classes)
    IN  IF n < max_classes
        THEN [adjusted |-> Append(acc.adjusted, entry),
              count |-> Bump(acc.count, entry.batch_id, entry.day),
              conflicts |-> acc.conflicts]
        ELSE IF entry.is_fixed
        THEN [adjusted |-> Append(acc.adjusted, entry),
              count |-> Bump(acc.count, entry.batch_id, entry.day),
              conflicts |-> Append(acc.conflicts,
                                   FixedOverCapConflict(entry, n + 1, max_classes))]
        ELSE IF rescheduled # <<>>
        THEN [adjusted |-> Append(acc.adjusted, rescheduled[1]),
              count |-> Bump(acc.count, entry.batch_id, rescheduled[1].day),
              conflicts |-> acc.conflicts]
        ELSE [adjusted |-> acc.adjusted,
              count |-> acc.count,
              conflicts |-> Append(acc.conflicts, DroppedConflict(entry))]

RECURSIVE EnforceLoop(_, _)
EnforceLoop(acc, rest) ==
    IF rest = <<>> THEN acc
    ELSE EnforceLoop(EnforceStep(acc, Head(rest)), Tail(rest))

\* enforce_max_classes_per_day(schedule): the adjusted list and the conflicts the
\* call appends to self.conflicts.
enforce_max_classes_per_day(sched) ==
    LET acc == EnforceLoop([adjusted |-> <<>>, count |-> <<>>, conflicts |-> <<>>],
                           StableSort(sched))
    IN  [adjusted |-> acc.adjusted, conflicts |-> acc.conflicts]

\* create_comprehensive_schedule: the entries of the new schedule and the conflicts
\* appended to self.conflicts.
create_comprehensive_schedule ==
    LET step1 == SpecialEntries(special_classes)
        step2 == step1 \o schedule_lab_sessions
        step3 == step2 \o schedule_electives_advanced
        step4 == step3 \o schedule_theory_classes(step3)
    IN  enforce_max_classes_per_day(step4)

-----------------------------------------------------------------------------
(* Evaluation: calculate_comprehensive_fitness over a list of entries *)

\* Placeholders in the source: each of these checks returns 0.
check_room_conflicts(sched) == 0
check_faculty_conflicts(sched) == 0
check_batch_conflicts(sched) == 0
check_capacity_violations(sched) == 0
check_shift_violations(sched) == 0
check_faculty_availability_violations(sched) == 0
check_special_class_violations(sched) == 0
check_lab_conflicts(sched) == 0
check_lab_duration_violations(sched) == 0
check_elective_sync_violations(sched) == 0
calculate_lab_utilization_score(sched) == 0

EntriesOfBatchDay(sched, batch_id, day) ==
    {k \in DOMAIN sched : sched[k].batch_id = batch_id /\ sched[k].day = day}

BatchDays(sched) == {<<sched[k].batch_id, sched[k].day>> : k \in DOMAIN sched}

\* A variant of the check that counts one violation per batch and day over the cap.
ViolationsCountingDays(sched) ==
    Cardinality({bd \in BatchDays(sched) :
        Cardinality(EntriesOfBatchDay(sched, bd[1], bd[2])) > MaxClassesOf(bd[1])})

check_max_classes_per_day_violations(sched) ==
    SumSeq([n \in 1..Cardinality(BatchDays(sched)) |->
        LET bd == SetToSeq(BatchDays(sched))[n]
            count == Cardinality(EntriesOfBatchDay(sched, bd[1], bd[2]))
            max_classes == MaxClassesOf(bd[1])
        IN  IF count > max_classes THEN count - max_classes ELSE 0])

\* With utilization_rate = actual_usage / total_possible_usage the comparisons
\* against the percentages are cross-multiplied; 0.8 * MIN and 1.1 * MAX are
\* MIN * 8 / 10 and MAX * 11 / 10.
calculate_classroom_utilization_score(sched) ==
    LET total_slots == Len(WORKING_DAYS) * Len(TIME_SLOTS)
        actual_usage == Cardinality({k \in DOMAIN sched : sched[k].venue_type = "classroom"})
        total_possible_usage == Len(classrooms) * total_slots
        a == IF total_possible_usage > 0 THEN actual_usage ELSE 0
        t == IF total_possible_usage > 0 THEN total_possible_usage ELSE 1
    IN  IF actual_usage = 0 THEN 0
        ELSE IF MIN_CLASSROOM_UTILIZATION * t <= 100 * a
                /\ 100 * a <= MAX_CLASSROOM_UTILIZATION * t THEN 20
        ELSE IF MIN_CLASSROOM_UTILIZATION * 8 * t <= 1000 * a
                /\ 1000 * a <= MAX_CLASSROOM_UTILIZATION * 11 * t THEN 15
        ELSE 5

\* (end_time - start_time).seconds / 3600: timedelta.seconds is never negative.
DurationHours(entry) == (entry.end_time - entry.start_time) % 24

FacultyIds(sched) == {sched[k].faculty_id : k \in DOMAIN sched}
Days(sched) == {sched[k].day : k \in DOMAIN sched}

WeeklyHours(sched, f) ==
    SumSeq([k \in DOMAIN sched |->
        IF sched[k].faculty_id = f THEN DurationHours(sched[k]) ELSE 0])

DailyHours(sched, f, day) ==
    SumSeq([k \in DOMAIN sched |->
        IF sched[k].faculty_id = f /\ sched[k].day = day
        THEN DurationHours(sched[k]) ELSE 0])

\* The hours of faculty f over its per-week and per-day limits; a faculty id with
\* no Faculty row is skipped.
FacultyViolations(sched, f) ==
    IF f \notin DOMAIN faculty THEN 0
    ELSE LET days == SetToSeq(Days(sched)) IN
         Max2(0, WeeklyHours(sched, f) - faculty[f].max_hours_per_week)
         + SumSeq([n \in 1..Len(days) |->
               Max2(0, DailyHours(sched, f, days[n]) - faculty[f].max_hours_per_day)])

\* std_dev < b, with variance = (n * sum(h^2) - sum(h)^2) / n^2.
StdDevBelow(hours, b) ==
    LET n == Len(hours)
        s == SumSeq(hours)
        q == SumSeq([k \in 1..n |-> hours[k] * hours[k]])
    IN  n * q - s * s < b * b * n * n

calculate_faculty_load_balance_score(sched) ==
    LET ids == SetToSeq(FacultyIds(sched))
        hours == [n \in 1..Len(ids) |-> WeeklyHours(sched, ids[n])]
        violations == SumSeq([n \in 1..Len(ids) |-> FacultyViolations(sched, ids[n])])
        balance_score ==
            IF hours = <<>> THEN 0
            ELSE IF StdDevBelow(hours, 2) THEN 20
            ELSE IF StdDevBelow(hours, 4) THEN 15
            ELSE IF StdDevBelow(hours, 6) THEN 10
            ELSE 5
    IN  balance_score - violations

\* fitness_score before the final max(0, .)
FitnessScore(sched) ==
    FitnessBase
    - check_room_conflicts(sched) * weights.room_conflicts
    - check_faculty_conflicts(sched) * weights.faculty_conflicts
    - check_batch_conflicts(sched) * weights.batch_conflicts
    - check_capacity_violations(sched) * weights.capacity_violations
    - check_shift_violations(sched) * weights.shift_violations
    - check_max_classes_per_day_violations(sched) * weights.max_classes_per_day
    - check_faculty_availability_violations(sched) * weights.faculty_availability_violations
    - check_special_class_violations(sched) * weights.special_class_violations
    - check_lab_conflicts(sched) * weights.lab_conflicts
    - check_lab_duration_violations(sched) * weights.lab_duration_violations
    - check_elective_sync_violations(sched) * weights.elective_sync_violations
    + calculate_classroom_utilization_score(sched) * weights.classroom_utilization
    + calculate_lab_utilization_score(sched) * weights.lab_utilization
    + calculate_faculty_load_balance_score(sched) * weights.faculty_load_balance

\* A variant of the fitness without the final max(0, .).
FitnessWithoutFloor(sched) == FitnessScore(sched)

calculate_comprehensive_fitness(sched) == Max2(0, FitnessScore(sched))

-----------------------------------------------------------------------------
(* Genetic operators *)

\* The schedule an individual denotes: its dicts, read through the heap.
Deref(h, individual) == [k \in 1..Len(individual) |-> h[individual[k]]]

\* tournament_selection: random.sample draws min(tournament_size, len) distinct
\* indices in a random order and the winner is the first of the highest fitness
\* among them, so an index can win iff enough others are not fitter than it.
TournamentWinners(scores) ==
    LET size == Min2(TournamentSize, Len(scores)) IN
    {w \in DOMAIN scores :
        Cardinality({j \in DOMAIN scores \ {w} : scores[j] <= scores[w]}) >= size - 1}

\* The outcomes of the test and of random.randint in enhanced_crossover:
\* "copy", a crossover point, or "raise" (randint(1, 0) raises ValueError).
CrossoverChoices(parent1, parent2) ==
    LET m == Min2(Len(parent1), Len(parent2)) IN
    (IF GA_CROSSOVER_RATE < 100 \/ m = 0 THEN {[kind |-> "copy", point |-> 0]} ELSE {})
    \cup (IF GA_CROSSOVER_RATE > 0 /\ m = 1 THEN {[kind |-> "raise", point |-> 0]} ELSE {})
    \cup (IF GA_CROSSOVER_RATE > 0 /\ m > 1
          THEN {[kind |-> "cross", point |-> c] : c \in 1..(m - 1)} ELSE {})

\* A variant of the crossover that swaps the tail into the first offspring only.
CrossoverWithoutSwapBack(parent1, parent2, choice) ==
    IF choice.kind = "cross"
    THEN << SubSeq(parent1, 1, choice.point)
              \o SubSeq(parent2, choice.point + 1, Len(parent2)),
            parent2 >>
    ELSE <<parent1, parent2>>

\* enhanced_crossover: the two offspring lists for a choice that does not raise.
enhanced_crossover(parent1, parent2, choice) ==
    IF choice.kind = "cross"
    THEN << SubSeq(parent1, 1, choice.point)
              \o SubSeq(parent2, choice.point + 1, Len(parent2)),
            SubSeq(parent2, 1, choice.point)
              \o SubSeq(parent1, choice.point + 1, Len(parent1)) >>
    ELSE <<parent1, parent2>>

NoMutation == [kind |-> "none", day |-> "", slot |-> <<0, 0>>, venue_id |-> 0]

\* What one iteration of the loop of comprehensive_mutation may do to an entry.
MutationChanges(entry) ==
    {[kind |-> "day", day |-> WORKING_DAYS[d], slot |-> <<0, 0>>, venue_id |-> 0] :
        d \in DOMAIN WORKING_DAYS}
    \cup {[kind |-> "time", day |-> "", slot |-> TIME_SLOTS[t], venue_id |-> 0] :
        t \in DOMAIN TIME_SLOTS}
    \cup (IF entry.class_type = "lab"
          THEN {[kind |-> "venue", day |-> "", slot |-> <<0, 0>>,
                 venue_id |-> laboratories[v].id] : v \in DOMAIN laboratories}
          ELSE {[kind |-> "venue", day |-> "", slot |-> <<0, 0>>,
                 venue_id |-> classrooms[v].id] : v \in DOMAIN classrooms})
    \cup (IF (entry.class_type = "lab" /\ laboratories = <<>>)
             \/ (entry.class_type # "lab" /\ classrooms = <<>>)
          THEN {NoMutation} ELSE {})

\* A variant of the mutation test without the `is_fixed` skip.
MutationOptionsIgnoringFixed(entry, rate) ==
    (IF rate < 100 THEN {NoMutation} ELSE {})
    \cup (IF rate > 0 THEN MutationChanges(entry) ELSE {})

\* random.random() < self.mutation_rate may fail (rate < 1) or hold (rate > 0);
\* when it holds a fixed entry is skipped.
MutationOptions(entry, rate) ==
    (IF rate < 100 THEN {NoMutation} ELSE {})
    \cup (IF rate > 0
          THEN (IF entry.is_fixed THEN {NoMutation} ELSE MutationChanges(entry))
          ELSE {})

\* A variant of the assignments in which a new day also resets the time.
ApplyMutationResettingTime(entry, m) ==
    CASE m.kind = "day" ->
            [entry EXCEPT !.day = m.day, !.start_time = TIME_SLOTS[1][1],
                          !.end_time = TIME_SLOTS[1][2]]
      [] m.kind = "time" -> [entry EXCEPT !.start_time = m.slot[1], !.end_time = m.slot[2]]
      [] m.kind = "venue" ->
            [entry EXCEPT !.venue_id = m.venue_id,
                          !.venue_type = IF entry.class_type = "lab"
                                         THEN "laboratory" ELSE "classroom"]
      [] OTHER -> entry

ApplyMutation(entry, m) ==
    CASE m.kind = "day" -> [entry EXCEPT !.day = m.day]
      [] m.kind = "time" -> [entry EXCEPT !.start_time = m.slot[1], !.end_time = m.slot[2]]
      [] m.kind = "venue" ->
            [entry EXCEPT !.venue_id = m.venue_id,
                          !.venue_type = IF entry.class_type = "lab"
                                         THEN "laboratory" ELSE "classroom"]
      [] OTHER -> entry

\* The random outcomes of one call of comprehensive_mutation: one per position.
RECURSIVE MutationPlans(_, _, _)
MutationPlans(h, individual, rate) ==
    IF individual = <<>> THEN {<<>>}
    ELSE {<<m>> \o rest : m \in MutationOptions(h[Head(individual)], rate),
                          rest \in MutationPlans(h, Tail(individual), rate)}

\* comprehensive_mutation changes the dicts of the individual in place: the heap
\* after the loop has run over positions k..Len(individual).
RECURSIVE MutateFrom(_, _, _, _)
MutateFrom(h, individual, plan, k) ==
    IF k > Len(individual) THEN h
    ELSE MutateFrom([h EXCEPT ![individual[k]] = ApplyMutation(h[individual[k]], plan[k])],
                    individual, plan, k + 1)

comprehensive_mutation(h, individual, plan) == MutateFrom(h, individual, plan, 1)

-----------------------------------------------------------------------------
(* Inputs of the model *)

SubjectSets == {{}, {1}}
BatchOptions == {[max_classes_per_day |-> 6, student_count |-> 50],
                 [max_classes_per_day |-> 1, student_count |-> 70]}
FacultyOptions == {[max_hours_per_day |-> 6, max_hours_per_week |-> 30],
                   [max_hours_per_day |-> 1, max_hours_per_week |-> 1]}

\* Day of the week, start hour and end hour of the special classes considered: a
\* one-hour class and two day-long events.
SpecialSlots == {<<1, 9, 10>>, <<1, 0, 23>>, <<2, 0, 23>>}

\* The SpecialClass rows a semester with these subjects may hold.
SpecialClassRows(subjs) ==
    {[subject_id |-> s, batch_id |-> 1, day_of_week |-> t[1], start_time |-> t[2],
      end_time |-> t[3], class_type |-> "special", priority |-> 1] :
        s \in subjs, t \in SpecialSlots}

SnapshotInit ==
    /\ subjects \in SubjectSets
    /\ special_classes \in SeqsUpTo(SpecialClassRows(subjects), MaxSpecial)
    /\ batches \in {[b \in {1} |-> r] : r \in BatchOptions}
    /\ faculty \in {[f \in {1} |-> r] : r \in FacultyOptions}

-----------------------------------------------------------------------------
(* optimize_with_comprehensive_constraints, step by step *)

generations == MaxGenerations

\* The optimizer object after __init__ and before any call.
OptimizerInit ==
    /\ population_size \in 1..MaxPopulation
    /\ mutation_rate = GA_MUTATION_RATE
    /\ conflicts = <<>>

SearchIdle ==
    /\ heap = <<>>
    /\ heap0 = <<>>
    /\ population = <<>>
    /\ fitness_scores = <<>>
    /\ generation = 0
    /\ best_individual = <<>>
    /\ best_fitness = 0
    /\ best_fitness_history = <<>>
    /\ new_population = <<>>
    /\ result = <<>>

DriverIdle ==
    /\ num_solutions = 0
    /\ run_index = 0
    /\ original_mutation_rate = 0
    /\ original_population_size = 0
    /\ solutions = <<>>
    /\ run_history = <<>>

EnforceIdle ==
    /\ schedule = <<>>
    /\ adjusted_schedule = <<>>

RouteIdle ==
    /\ semester_id = 1
    /\ session = <<>>
    /\ database = <<>>
    /\ response = 0

TablesIdle ==
    /\ timetable_reviews = <<>>
    /\ faculty_leaves = <<>>

Init ==
    /\ SnapshotInit
    /\ OptimizerInit
    /\ pc = "build"
    /\ SearchIdle
    /\ DriverIdle
    /\ EnforceIdle
    /\ RouteIdle
    /\ TablesIdle
    /\ stop_requested = FALSE

\* One iteration of the loop that builds the initial population: a call of
\* create_comprehensive_schedule makes new dicts and appends its conflicts.
CreateIndividual ==
    /\ pc = "build"
    /\ Len(population) < population_size
    /\ LET built == create_comprehensive_schedule
           ids == [k \in 1..Len(built.adjusted) |-> Len(heap) + k]
       IN  /\ heap' = heap \o built.adjusted
           /\ heap0' = heap0 \o built.adjusted
           /\ population' = Append(population, ids)
           /\ conflicts' = conflicts \o built.conflicts
    /\ UNCHANGED <<snapshotVars, population_size, mutation_rate, pc, fitness_scores,
                   generation, best_individual, best_fitness, best_fitness_history,
                   new_population, result, driverVars, enforceVars, routeVars, stop_requested, tableVars>>

\* The population is complete: best_fitness_history = [], best_individual = None,
\* best_fitness = 0, and the generation loop is entered (or skipped).
BeginSearch ==
    /\ pc = "build"
    /\ Len(population) = population_size
    /\ best_fitness_history' = <<>>
    /\ best_individual' = <<>>
    /\ best_fitness' = 0
    /\ generation' = 0
    /\ pc' = IF generations > 0 THEN "evaluate" ELSE "final"
    /\ UNCHANGED <<snapshotVars, population_size, mutation_rate, conflicts, heap, heap0,
                   population, fitness_scores, new_population, result, driverVars,
                   enforceVars, routeVars, stop_requested, tableVars>>

\* np.argmax: the first index of the highest score.
ArgMax(scores) ==
    CHOOSE k \in DOMAIN scores :
        /\ scores[k] = MaxOfSeq(scores)
        /\ \A j \in 1..(k - 1) : scores[j] < scores[k]

\* A variant of the best-ever test with the comparison reversed.
ImprovesWhenLower(current, best) == current < best

\* `if current_best_fitness > best_fitness`
Improves(current, best) == current > best

\* A variant of the head of the generation loop whose evaluation records what it
\* finds in self.conflicts.
EvaluateRecordingConflicts ==
    /\ pc = "evaluate"
    /\ LET scores == [k \in 1..Len(population) |->
                         calculate_comprehensive_fitness(Deref(heap, population[k]))]
           current_best_fitness == IF scores # <<>> THEN MaxOfSeq(scores) ELSE 0
           current_best_index == IF scores # <<>> THEN ArgMax(scores) ELSE 0
       IN  /\ fitness_scores' = scores
           /\ conflicts' = conflicts \o [k \in 1..Len(population) |->
                               [type |-> "evaluated", fitness |-> scores[k]]]
           /\ IF Improves(current_best_fitness, best_fitness)
              THEN /\ best_fitness' = current_best_fitness
                   /\ best_individual' = <<population[current_best_index]>>
              ELSE UNCHANGED <<best_fitness, best_individual>>
           /\ best_fitness_history' = Append(best_fitness_history, current_best_fitness)
           /\ pc' = IF current_best_fitness >= ExcellentFitness THEN "final" ELSE "elitism"
    /\ UNCHANGED <<snapshotVars, population_size, mutation_rate, heap, heap0,
                   population, generation, new_population, result, driverVars,
                   enforceVars, routeVars, stop_requested, tableVars>>

\* The head of the generation loop: the fitness of every individual, the best-ever
\* tracking, the history, and the early stop.
Evaluate ==
    /\ pc = "evaluate"
    /\ LET scores == [k \in 1..Len(population) |->
                         calculate_comprehensive_fitness(Deref(heap, population[k]))]
           current_best_fitness == IF scores # <<>> THEN MaxOfSeq(scores) ELSE 0
           current_best_index == IF scores # <<>> THEN ArgMax(scores) ELSE 0
       IN  /\ fitness_scores' = scores
           /\ IF Improves(current_best_fitness, best_fitness)
              THEN /\ best_fitness' = current_best_fitness
                   /\ best_individual' = <<population[current_best_index]>>
              ELSE UNCHANGED <<best_fitness, best_individual>>
           /\ best_fitness_history' = Append(best_fitness_history, current_best_fitness)
           /\ pc' = IF current_best_fitness >= ExcellentFitness THEN "final" ELSE "elitism"
    /\ UNCHANGED <<snapshotVars, population_size, mutation_rate, conflicts, heap, heap0,
                   population, generation, new_population, result, driverVars,
                   enforceVars, routeVars, stop_requested, tableVars>>

\* The position of index k in np.argsort(scores): numpy sorts an array of up to 16
\* elements by insertion, so equal scores keep the order of their indices.
ArgSortRank(scores, k) ==
    1 + Cardinality({j \in DOMAIN scores :
                        scores[j] < scores[k] \/ (scores[j] = scores[k] /\ j < k)})

ArgSort(scores) ==
    [r \in 1..Len(scores) |-> CHOOSE k \in DOMAIN scores : ArgSortRank(scores, k) = r]

\* s[-n:] of Python, for n >= 1
LastN(s, n) == SubSeq(s, Max2(1, Len(s) - n + 1), Len(s))

\* Elitism: new_population starts with copies of the lists of the elite_count
\* highest scores.
Elitism ==
    /\ pc = "elitism"
    /\ LET elite_count == Max2(1, population_size \div EliteDivisor)
           elite_indices == LastN(ArgSort(fitness_scores), elite_count)
       IN  new_population' = [k \in 1..Len(elite_indices) |-> population[elite_indices[k]]]
    /\ pc' = "refill"
    /\ UNCHANGED <<snapshotVars, population_size, mutation_rate, conflicts, heap, heap0,
                   population, fitness_scores, generation, best_individual, best_fitness,
                   best_fitness_history, result, driverVars, enforceVars, routeVars, stop_requested, tableVars>>

\* One iteration of `while len(new_population) < self.population_size`: two
\* tournaments, crossover, the mutation of offspring1 and then of offspring2.
Reproduce ==
    /\ pc = "refill"
    /\ Len(new_population) < population_size
    /\ \E w1, w2 \in TournamentWinners(fitness_scores) :
       \E choice \in CrossoverChoices(population[w1], population[w2]) :
           /\ choice.kind # "raise"
           /\ LET offspring == enhanced_crossover(population[w1], population[w2], choice) IN
              \E plan1 \in MutationPlans(heap, offspring[1], mutation_rate) :
              LET h1 == comprehensive_mutation(heap, offspring[1], plan1) IN
              \E plan2 \in MutationPlans(h1, offspring[2], mutation_rate) :
                  /\ heap' = comprehensive_mutation(h1, offspring[2], plan2)
                  /\ new_population' = new_population \o offspring
    /\ UNCHANGED <<snapshotVars, population_size, mutation_rate, conflicts, heap0, pc,
                   population, fitness_scores, generation, best_individual, best_fitness,
                   best_fitness_history, result, driverVars, enforceVars, routeVars, stop_requested, tableVars>>

\* The same iteration when crossover is applied to parents of which one has a single
\* entry: random.randint(1, 0) raises ValueError and the call ends without a result.
ReproduceRaises ==
    /\ pc = "refill"
    /\ Len(new_population) < population_size
    /\ \E w1, w2 \in TournamentWinners(fitness_scores) :
       \E choice \in CrossoverChoices(population[w1], population[w2]) :
           choice.kind = "raise"
    /\ pc' = "raised"
    /\ UNCHANGED <<snapshotVars, population_size, mutation_rate, conflicts, searchVars,
                   driverVars, enforceVars, routeVars, stop_requested, tableVars>>

RECURSIVE Flatten(_)
Flatten(lists) == IF lists = <<>> THEN <<>> ELSE Head(lists) \o Flatten(Tail(lists))

\* The elements of s in the order of their first occurrence.
RECURSIVE FirstOccurrences(_)
FirstOccurrences(s) ==
    IF s = <<>> THEN <<>>
    ELSE LET front == FirstOccurrences(SubSeq(s, 1, Len(s) - 1)) IN
         IF s[Len(s)] \in Range(front) THEN front ELSE Append(front, s[Len(s)])

IndexOf(s, x) == CHOOSE k \in DOMAIN s : s[k] = x

\* A variant of the last step of a generation that keeps every offspring, without
\* the slice to population_size.
ReplacePopulationKeepingAll ==
    /\ pc = "refill"
    /\ Len(new_population) >= population_size
    /\ LET kept == new_population
           live == FirstOccurrences(Flatten(best_individual \o kept))
           Renamed(individual) ==
               [k \in 1..Len(individual) |-> IndexOf(live, individual[k])]
       IN  /\ population' = [k \in 1..Len(kept) |-> Renamed(kept[k])]
           /\ best_individual' = [k \in 1..Len(best_individual) |->
                                     Renamed(best_individual[k])]
           /\ heap' = [k \in 1..Len(live) |-> heap[live[k]]]
           /\ heap0' = [k \in 1..Len(live) |-> heap0[live[k]]]
    /\ new_population' = <<>>
    /\ generation' = generation + 1
    /\ pc' = IF generation + 1 < generations THEN "evaluate" ELSE "final"
    /\ UNCHANGED <<snapshotVars, population_size, mutation_rate, conflicts,
                   fitness_scores, best_fitness, best_fitness_history, result,
                   driverVars, enforceVars, routeVars, stop_requested, tableVars>>

\* population = new_population[:self.population_size], and the next generation.
\* The old lists become garbage here.  Object ids carry no meaning, so the dicts
\* still referred to are renumbered in the order in which best_individual and the
\* population refer to them, and the others are dropped from the heap.
ReplacePopulation ==
    /\ pc = "refill"
    /\ Len(new_population) >= population_size
    /\ LET kept == SubSeq(new_population, 1, population_size)
           live == FirstOccurrences(Flatten(best_individual \o kept))
           Renamed(individual) ==
               [k \in 1..Len(individual) |-> IndexOf(live, individual[k])]
       IN  /\ population' = [k \in 1..Len(kept) |-> Renamed(kept[k])]
           /\ best_individual' = [k \in 1..Len(best_individual) |->
                                     Renamed(best_individual[k])]
           /\ heap' = [k \in 1..Len(live) |-> heap[live[k]]]
           /\ heap0' = [k \in 1..Len(live) |-> heap0[live[k]]]
    /\ new_population' = <<>>
    /\ generation' = generation + 1
    /\ pc' = IF generation + 1 < generations THEN "evaluate" ELSE "final"
    /\ UNCHANGED <<snapshotVars, population_size, mutation_rate, conflicts,
                   fitness_scores, best_fitness, best_fitness_history, result,
                   driverVars, enforceVars, routeVars, stop_requested, tableVars>>

\* The final result: when no individual was ever recorded, population[0] (or [])
\* and its fitness.
Finish ==
    /\ pc = "final"
    /\ IF best_individual = <<>>
       THEN LET chosen == IF population # <<>> THEN population[1] ELSE <<>> IN
            /\ best_individual' = <<chosen>>
            /\ best_fitness' = calculate_comprehensive_fitness(Deref(heap, chosen))
       ELSE UNCHANGED <<best_individual, best_fitness>>
    /\ result' = <<best_individual'[1], best_fitness'>>
    /\ pc' = "returned"
    /\ UNCHANGED <<snapshotVars, population_size, mutation_rate, conflicts, heap, heap0,
                   population, fitness_scores, generation, best_fitness_history,
                   new_population, driverVars, enforceVars, routeVars, stop_requested, tableVars>>

Next ==
    \/ CreateIndividual
    \/ BeginSearch
    \/ Evaluate
    \/ Elitism
    \/ Reproduce
    \/ ReproduceRaises
    \/ ReplacePopulation
    \/ Finish

Spec == Init /\ [][Next]_vars

-----------------------------------------------------------------------------
(* enforce_max_classes_per_day as a function of the list it is given *)

EntryDays == {"Monday", "Tuesday"}

\* The entries a schedule handed to enforce_max_classes_per_day may hold: fixed or
\* not, of either priority, on either day, all of batch 1.
ScheduleEntries ==
    {[subject_id |-> 1, batch_id |-> 1, faculty_id |-> 1, venue_id |-> 1,
      venue_type |-> "classroom", day |-> d, start_time |-> 9, end_time |-> 10,
      is_fixed |-> f, shift |-> "morning", class_type |-> "theory", priority |-> p] :
        d \in EntryDays, f \in BOOLEAN, p \in {1, 2}}

EnforceInit ==
    /\ SnapshotInit
    /\ special_classes = <<>>
    /\ OptimizerInit
    /\ population_size = 1
    /\ pc = "enforce"
    /\ SearchIdle
    /\ DriverIdle
    /\ schedule \in SeqsUpTo(ScheduleEntries, MaxEntries)
    /\ adjusted_schedule = <<>>
    /\ RouteIdle
    /\ TablesIdle
    /\ stop_requested = FALSE

EnforceCall ==
    /\ pc = "enforce"
    /\ LET r == enforce_max_classes_per_day(schedule) IN
       /\ adjusted_schedule' = r.adjusted
       /\ conflicts' = conflicts \o r.conflicts
    /\ schedule' = StableSort(schedule)      \* schedule.sort is in place
    /\ pc' = "enforced"
    /\ UNCHANGED <<snapshotVars, population_size, mutation_rate, searchVars, driverVars,
                   routeVars, stop_requested, tableVars>>

EnforceNext == EnforceCall

SpecEnforce == EnforceInit /\ [][EnforceNext]_vars

-----------------------------------------------------------------------------
(* generate_multiple_optimized_solutions *)

\* The fitness values a run may return, for the driver: one below every other, one
\* below the early-stop threshold and one above it.
RunFitnessValues == {0, 50, 1370}

\* calculate_solution_metrics: the counts of the packaged solution (the utilization
\* percentages and the load balance are not part of the model).
calculate_solution_metrics(sched, confl) ==
    [total_classes_scheduled |-> Len(sched),
     fixed_classes |-> Cardinality({k \in DOMAIN sched : sched[k].is_fixed}),
     total_conflicts |-> Len(confl)]

\* solutions.sort(key=fitness, reverse=True): stable, highest fitness first.
RECURSIVE InsertByFitness(_, _)
InsertByFitness(sorted, sol) ==
    IF sorted = <<>> THEN <<sol>>
    ELSE IF sol.fitness > Head(sorted).fitness THEN <<sol>> \o sorted
    ELSE <<Head(sorted)>> \o InsertByFitness(Tail(sorted), sol)

\* A variant of the final sort that leaves the solutions in run order.
SortByFitnessLeavingOrder(sols) == sols

RECURSIVE SortByFitness(_)
SortByFitness(sols) ==
    IF sols = <<>> THEN <<>>
    ELSE InsertByFitness(SortByFitness(SubSeq(sols, 1, Len(sols) - 1)), sols[Len(sols)])

\* The conflicts appended while the initial population of n schedules is built.
RECURSIVE BuildConflicts(_)
BuildConflicts(n) ==
    IF n = 0 THEN <<>>
    ELSE BuildConflicts(n - 1) \o create_comprehensive_schedule.conflicts

DriverInit ==
    /\ SnapshotInit
    /\ OptimizerInit
    /\ pc = "driver_loop"
    /\ SearchIdle
    /\ num_solutions \in 0..MaxSolutions
    /\ run_index = 0
    /\ original_mutation_rate = 0
    /\ original_population_size = 0
    /\ solutions = <<>>
    /\ run_history = <<>>
    /\ EnforceIdle
    /\ RouteIdle
    /\ TablesIdle
    /\ stop_requested = FALSE

\* The head of the loop body: the parameters of run i are varied.
DriverVary ==
    /\ pc = "driver_loop"
    /\ run_index < num_solutions
    /\ original_mutation_rate' = mutation_rate
    /\ original_population_size' = population_size
    /\ mutation_rate' = mutation_rate + run_index * MutationRateStep
    /\ population_size' = population_size + run_index * PopulationSizeStep
    /\ pc' = "driver_run"
    /\ UNCHANGED <<snapshotVars, conflicts, searchVars, num_solutions, run_index,
                   solutions, run_history, enforceVars, routeVars, stop_requested, tableVars>>

\* The call of optimize_with_comprehensive_constraints, seen from the driver: it
\* builds population_size schedules, which appends their conflicts, and returns a
\* schedule with a fitness.  The search in between is not replayed here: the
\* schedule is the one the construction gives and the fitness is any of
\* RunFitnessValues, so that the runs may come in any order of fitness.
DriverOptimize ==
    /\ pc = "driver_run"
    /\ conflicts' = conflicts \o BuildConflicts(population_size)
    /\ \E fitness \in RunFitnessValues :
           /\ result' = <<create_comprehensive_schedule.adjusted, fitness>>
           /\ run_history' = Append(run_history, fitness)
    /\ pc' = "driver_record"
    /\ UNCHANGED <<snapshotVars, population_size, mutation_rate, heap, heap0, population,
                   fitness_scores, generation, best_individual, best_fitness,
                   best_fitness_history, new_population, num_solutions, run_index,
                   original_mutation_rate, original_population_size, solutions,
                   enforceVars, routeVars, stop_requested, tableVars>>

\* The same call when the search raises: the candidates hold one entry each, the
\* first generation does not stop early and the refill loop applies crossover to
\* two single-entry parents.  The exception leaves
\* generate_multiple_optimized_solutions.
DriverOptimizeRaises ==
    /\ pc = "driver_run"
    /\ Len(create_comprehensive_schedule.adjusted) = 1
    /\ population_size > 1
    /\ generations > 0
    /\ calculate_comprehensive_fitness(create_comprehensive_schedule.adjusted)
           < ExcellentFitness
    /\ conflicts' = conflicts \o BuildConflicts(population_size)
    /\ pc' = "raised"
    /\ UNCHANGED <<snapshotVars, population_size, mutation_rate, searchVars, driverVars,
                   enforceVars, routeVars, stop_requested, tableVars>>

\* A variant of the rest of the loop body that leaves self.conflicts as it is.
DriverRecordKeepingConflicts ==
    /\ pc = "driver_record"
    /\ solutions' = Append(solutions,
                           [schedule |-> result[1],
                            fitness |-> result[2],
                            metrics |-> calculate_solution_metrics(result[1], conflicts),
                            conflicts |-> conflicts])
    /\ mutation_rate' = original_mutation_rate
    /\ population_size' = original_population_size
    /\ run_index' = run_index + 1
    /\ pc' = "driver_loop"
    /\ UNCHANGED <<snapshotVars, conflicts, searchVars, num_solutions,
                   original_mutation_rate, original_population_size, run_history,
                   enforceVars, routeVars, stop_requested, tableVars>>

\* The rest of the loop body: the solution is packaged and the parameters and the
\* conflicts are reset.
DriverRecord ==
    /\ pc = "driver_record"
    /\ solutions' = Append(solutions,
                           [schedule |-> result[1],
                            fitness |-> result[2],
                            metrics |-> calculate_solution_metrics(result[1], conflicts),
                            conflicts |-> conflicts])
    /\ mutation_rate' = original_mutation_rate
    /\ population_size' = original_population_size
    /\ conflicts' = <<>>
    /\ run_index' = run_index + 1
    /\ pc' = "driver_loop"
    /\ UNCHANGED <<snapshotVars, searchVars, num_solutions, original_mutation_rate,
                   original_population_size, run_history, enforceVars, routeVars, stop_requested, tableVars>>

\* After the loop: the solutions are sorted and returned.
DriverReturn ==
    /\ pc = "driver_loop"
    /\ run_index >= num_solutions
    /\ solutions' = SortByFitness(solutions)
    /\ pc' = "driver_done"
    /\ UNCHANGED <<snapshotVars, population_size, mutation_rate, conflicts, searchVars,
                   num_solutions, run_index, original_mutation_rate,
                   original_population_size, run_history, enforceVars, routeVars, stop_requested, tableVars>>

DriverNext ==
    \/ DriverVary
    \/ DriverOptimize
    \/ DriverOptimizeRaises
    \/ DriverRecord
    \/ DriverReturn

SpecDriver == DriverInit /\ [][DriverNext]_vars

-----------------------------------------------------------------------------
(* The route generate_advanced_timetable *)

\* routes.convert_day_to_number
convert_day_to_number(day_name) ==
    CASE day_name = "Monday" -> 1
      [] day_name = "Tuesday" -> 2
      [] day_name = "Wednesday" -> 3
      [] day_name = "Thursday" -> 4
      [] day_name = "Friday" -> 5
      [] day_name = "Saturday" -> 6
      [] day_name = "Sunday" -> 7
      [] OTHER -> 1

\* routes.convert_day_to_name
convert_day_to_name(day_number) ==
    CASE day_number = 1 -> "Monday"
      [] day_number = 2 -> "Tuesday"
      [] day_number = 3 -> "Wednesday"
      [] day_number = 4 -> "Thursday"
      [] day_number = 5 -> "Friday"
      [] day_number = 6 -> "Saturday"
      [] day_number = 7 -> "Sunday"
      [] OTHER -> "Monday"

\* A variant of the row that sets classroom_id whatever the venue type.
ScheduleEntryRowAlwaysClassroom(entry) ==
    [subject_id |-> entry.subject_id,
     faculty_id |-> entry.faculty_id,
     classroom_id |-> entry.venue_id,
     laboratory_id |-> IF entry.venue_type = "laboratory" THEN entry.venue_id ELSE 0,
     batch_id |-> entry.batch_id,
     day_of_week |-> convert_day_to_number(entry.day),
     start_time |-> entry.start_time,
     end_time |-> entry.end_time,
     is_fixed |-> entry.is_fixed,
     shift |-> entry.shift,
     class_type |-> entry.class_type]

\* The ScheduleEntry row built from an entry of a solution (0 stands for None).
ScheduleEntryRow(entry) ==
    [subject_id |-> entry.subject_id,
     faculty_id |-> entry.faculty_id,
     classroom_id |-> IF entry.venue_type = "classroom" THEN entry.venue_id ELSE 0,
     laboratory_id |-> IF entry.venue_type = "laboratory" THEN entry.venue_id ELSE 0,
     batch_id |-> entry.batch_id,
     day_of_week |-> convert_day_to_number(entry.day),
     start_time |-> entry.start_time,
     end_time |-> entry.end_time,
     is_fixed |-> entry.is_fixed,
     shift |-> entry.shift,
     class_type |-> entry.class_type]

\* The ScheduleConflict row built from a conflict of a solution.
ScheduleConflictRow(conflict_data) ==
    [conflict_type |-> conflict_data.type,
     severity |-> "high",
     is_resolved |-> FALSE,
     auto_resolvable |-> conflict_data.type \in {"room_change", "time_change"}]

\* The Timetable row of a solution, with the rows that refer to it.
TimetableRow(sol_data) ==
    [semester_id |-> semester_id,
     fitness_score |-> sol_data.fitness,
     conflict_count |-> sol_data.metrics.total_conflicts,
     total_classes_scheduled |-> sol_data.metrics.total_classes_scheduled,
     status |-> "draft",
     approved_by |-> 0,                       \* None
     approved_at |-> 0,                       \* None
     entries |-> [k \in DOMAIN sol_data.schedule |-> ScheduleEntryRow(sol_data.schedule[k])],
     conflicts |-> [k \in DOMAIN sol_data.conflicts |->
                       ScheduleConflictRow(sol_data.conflicts[k])]]

\* The special classes of the requests considered: a day-long event on any day of
\* the week.
RouteSpecialRows ==
    {[subject_id |-> 1, batch_id |-> 1, day_of_week |-> d, start_time |-> 0,
      end_time |-> 23, class_type |-> "special", priority |-> 1] : d \in 1..7}

RouteInit ==
    /\ subjects = {1}
    /\ special_classes \in SeqsUpTo(RouteSpecialRows, MaxRouteSpecial)
    /\ batches \in {[b \in {1} |-> r] : r \in BatchOptions}
    /\ faculty \in {[f \in {1} |-> r] : r \in FacultyOptions}
    /\ OptimizerInit
    /\ pc = "route"
    /\ SearchIdle
    /\ num_solutions \in 0..MaxSolutions        \* num_alternatives of the request
    /\ run_index = 0
    /\ original_mutation_rate = 0
    /\ original_population_size = 0
    /\ solutions = <<>>
    /\ run_history = <<>>
    /\ EnforceIdle
    /\ semester_id \in {0, 1}
    /\ session = <<>>
    /\ database = <<>>
    /\ response = 0
    /\ TablesIdle
    /\ stop_requested = FALSE

\* `if not semester_id`: the request is answered with 400.
RouteReject ==
    /\ pc = "route"
    /\ semester_id = 0
    /\ response' = 400
    /\ pc' = "route_done"
    /\ UNCHANGED <<snapshotVars, population_size, mutation_rate, conflicts, searchVars,
                   driverVars, enforceVars, semester_id, session, database,
                   stop_requested, tableVars>>

\* The optimizer is built and generate_multiple_optimized_solutions is called.
RouteGenerate ==
    /\ pc = "route"
    /\ semester_id # 0
    /\ pc' = "driver_loop"
    /\ UNCHANGED <<snapshotVars, population_size, mutation_rate, conflicts, searchVars,
                   driverVars, enforceVars, routeVars, stop_requested, tableVars>>

\* One iteration of the loop over the solutions: the Timetable row, its
\* ScheduleEntry rows and its ScheduleConflict rows are added to the session.
RoutePersist ==
    /\ pc = "driver_done"
    /\ Len(session) < Len(solutions)
    /\ session' = Append(session, TimetableRow(solutions[Len(session) + 1]))
    /\ UNCHANGED <<snapshotVars, population_size, mutation_rate, conflicts, pc,
                   searchVars, driverVars, enforceVars, semester_id, database,
                   response, stop_requested, tableVars>>

\* The same iteration when the database refuses the flush of the Timetable row
\* (db.session.flush() raises): the row is in the session, without rows that refer
\* to it, and the exception leaves the loop.
RoutePersistRaises ==
    /\ pc = "driver_done"
    /\ Len(session) < Len(solutions)
    /\ session' = Append(session,
                         [TimetableRow(solutions[Len(session) + 1])
                             EXCEPT !.entries = <<>>, !.conflicts = <<>>])
    /\ pc' = "raised"
    /\ UNCHANGED <<snapshotVars, population_size, mutation_rate, conflicts,
                   searchVars, driverVars, enforceVars, semester_id, database,
                   response, stop_requested, tableVars>>

\* db.session.commit() and the answer.
RouteCommit ==
    /\ pc = "driver_done"
    /\ Len(session) = Len(solutions)
    /\ database' = database \o session
    /\ session' = <<>>
    /\ response' = 200
    /\ pc' = "route_done"
    /\ UNCHANGED <<snapshotVars, population_size, mutation_rate, conflicts, searchVars,
                   driverVars, enforceVars, semester_id, stop_requested, tableVars>>

\* A variant of the exception handler that commits what the session holds.
RouteRollbackCommitting ==
    /\ pc = "raised"
    /\ database' = database \o session
    /\ session' = <<>>
    /\ response' = 500
    /\ pc' = "route_done"
    /\ UNCHANGED <<snapshotVars, population_size, mutation_rate, conflicts, searchVars,
                   driverVars, enforceVars, semester_id, stop_requested, tableVars>>

\* `except Exception`: the session is rolled back and the request answered with 500.
RouteRollback ==
    /\ pc = "raised"
    /\ session' = <<>>
    /\ response' = 500
    /\ pc' = "route_done"
    /\ UNCHANGED <<snapshotVars, population_size, mutation_rate, conflicts, searchVars,
                   driverVars, enforceVars, semester_id, database, stop_requested, tableVars>>

RouteNext ==
    \/ RouteReject
    \/ RouteGenerate
    \/ DriverVary
    \/ DriverOptimize
    \/ DriverOptimizeRaises
    \/ DriverRecord
    \/ DriverReturn
    \/ RoutePersist
    \/ RoutePersistRaises
    \/ RouteCommit
    \/ RouteRollback

SpecRoute == RouteInit /\ [][RouteNext]_vars

-----------------------------------------------------------------------------
(* The timetable workflow: generation requests, PUT /timetables/<id> and
   POST /timetable-review *)

\* get_jwt_identity() of the requests considered
Users == {1}

\* datetime.utcnow(): a timestamp, as opposed to None (0)
UtcNow == 1

\* The body of a PUT /timetables/<id>: <<>> carries no 'status', <<v>> carries v.
\* The requests considered carry no 'name' and no 'review_comments', so that both
\* columns keep their values.
PutStatuses == {<<>>, <<"draft">>, <<"under_review">>, <<"approved">>, <<"active">>}

\* The body of a POST /timetable-review: <<>> carries no 'review_status'.  The
\* requests considered carry no 'comments'.
ReviewStatuses ==
    {<<>>, <<"pending">>, <<"approved">>, <<"rejected">>, <<"changes_requested">>}

\* An empty semester, for which every run of the search returns the empty schedule
\* at its first evaluation; the tables are empty.
WorkflowInit ==
    /\ subjects = {}
    /\ special_classes = <<>>
    /\ batches = [b \in {1} |-> [max_classes_per_day |-> 6, student_count |-> 50]]
    /\ faculty = [f \in {1} |-> [max_hours_per_day |-> 6, max_hours_per_week |-> 30]]
    /\ OptimizerInit
    /\ population_size = 1
    /\ pc = "serve"
    /\ SearchIdle
    /\ DriverIdle
    /\ EnforceIdle
    /\ RouteIdle
    /\ TablesIdle
    /\ stop_requested = FALSE

\* A whole request to generate_advanced_timetable for the semester, with
\* num_alternatives = k: on an empty semester each run returns the schedule the
\* construction gives, with its fitness, and the request commits one draft
\* Timetable row per solution.  The optimizer object is the request's own.
GenerateTimetables ==
    /\ pc = "serve"
    /\ \E k \in 1..MaxTimetables :
           /\ Len(database) + k <= MaxTimetables
           /\ LET built == create_comprehensive_schedule
                  sol(i) ==
                      LET confl == BuildConflicts(population_size + i * PopulationSizeStep)
                      IN  [schedule |-> built.adjusted,
                           fitness |-> calculate_comprehensive_fitness(built.adjusted),
                           metrics |-> calculate_solution_metrics(built.adjusted, confl),
                           conflicts |-> confl]
                  sols == SortByFitness([n \in 1..k |-> sol(n - 1)])
              IN  database' = database \o [n \in 1..k |-> TimetableRow(sols[n])]
    /\ response' = 200
    /\ UNCHANGED <<snapshotVars, population_size, mutation_rate, conflicts, pc,
                   searchVars, driverVars, enforceVars, semester_id, session,
                   stop_requested, tableVars>>

\* A variant of PUT /timetables/<id> that records no approver.
PutTimetableWithoutApprover ==
    /\ pc = "serve"
    /\ \E timetable_id \in 1..MaxTimetables, data \in PutStatuses :
           IF timetable_id \in DOMAIN database
           THEN /\ database' = [database EXCEPT ![timetable_id].status =
                                    IF data # <<>> THEN data[1] ELSE @]
                /\ response' = 200
           ELSE /\ response' = 500
                /\ UNCHANGED database
    /\ UNCHANGED <<snapshotVars, population_size, mutation_rate, conflicts, pc,
                   searchVars, driverVars, enforceVars, semester_id, session,
                   stop_requested, tableVars>>

\* PUT /timetables/<id>: the status of the body replaces the status, and a status
\* of 'approved' records the user and the time.  An unknown id makes get_or_404
\* raise, which the handler answers with 500 after a rollback.
PutTimetable ==
    /\ pc = "serve"
    /\ \E timetable_id \in 1..MaxTimetables, data \in PutStatuses, user \in Users :
           IF timetable_id \in DOMAIN database
           THEN /\ database' =
                       [database EXCEPT ![timetable_id] =
                           [@ EXCEPT !.status = IF data # <<>> THEN data[1] ELSE @,
                                     !.approved_by =
                                         IF data = <<"approved">> THEN user ELSE @,
                                     !.approved_at =
                                         IF data = <<"approved">> THEN UtcNow ELSE @]]
                /\ response' = 200
           ELSE /\ response' = 500
                /\ UNCHANGED database
    /\ UNCHANGED <<snapshotVars, population_size, mutation_rate, conflicts, pc,
                   searchVars, driverVars, enforceVars, semester_id, session,
                   stop_requested, tableVars>>

\* The status a review gives the timetable; <<>> leaves it as it is.
StatusAfterReview(review_status) ==
    CASE review_status = <<"approved">> -> <<"approved">>
      [] review_status = <<"rejected">> -> <<"rejected">>
      [] review_status = <<"changes_requested">> -> <<"under_review">>
      [] OTHER -> <<>>

\* POST /timetable-review: a TimetableReview row is added and the status of the
\* timetable follows the review; an approving review records the reviewer and the
\* time.  An unknown timetable id is answered with 500 and adds nothing.
CreateTimetableReview ==
    /\ pc = "serve"
    /\ Len(timetable_reviews) < MaxReviews
    /\ \E timetable_id \in 1..MaxTimetables, data \in ReviewStatuses,
          current_user_id \in Users :
           IF timetable_id \in DOMAIN database
           THEN /\ timetable_reviews' =
                       Append(timetable_reviews,
                              [timetable_id |-> timetable_id,
                               reviewer_id |-> current_user_id,
                               review_status |-> IF data # <<>> THEN data[1]
                                                 ELSE "pending"])
                /\ database' =
                       [database EXCEPT ![timetable_id] =
                           [@ EXCEPT !.status = IF StatusAfterReview(data) # <<>>
                                                THEN StatusAfterReview(data)[1] ELSE @,
                                     !.approved_by = IF data = <<"approved">>
                                                     THEN current_user_id ELSE @,
                                     !.approved_at = IF data = <<"approved">>
                                                     THEN UtcNow ELSE @]]
                /\ response' = 200
           ELSE /\ response' = 500
                /\ UNCHANGED <<database, timetable_reviews>>
    /\ UNCHANGED <<snapshotVars, population_size, mutation_rate, conflicts, pc,
                   searchVars, driverVars, enforceVars, semester_id, session,
                   faculty_leaves, stop_requested>>

WorkflowNext ==
    \/ GenerateTimetables
    \/ PutTimetable
    \/ CreateTimetableReview

SpecWorkflow == WorkflowInit /\ [][WorkflowNext]_vars

-----------------------------------------------------------------------------
(* Faculty leaves: POST /faculty-leaves and PUT /faculty-leaves/<id>/approve *)

LeaveFacultyIds == {1, 2}
LeaveDates == 1..MaxDate

\* The approved leaves of the faculty member that overlap the given dates.
OverlappingApprovedLeaves(faculty_id, start_date, end_date) ==
    {k \in DOMAIN faculty_leaves :
        /\ faculty_leaves[k].faculty_id = faculty_id
        /\ faculty_leaves[k].start_date <= end_date
        /\ faculty_leaves[k].end_date >= start_date
        /\ faculty_leaves[k].is_approved}

\* POST /faculty-leaves: 400 when the end date is before the start date or an
\* approved leave of the faculty member overlaps; otherwise the leave is stored
\* with the is_approved of the body (False when the body has none) and the answer
\* is 201.
PostFacultyLeave ==
    /\ pc = "serve"
    /\ \E faculty_id \in LeaveFacultyIds, start_date \in LeaveDates,
          end_date \in LeaveDates, is_approved \in BOOLEAN :
           IF end_date < start_date
           THEN /\ response' = 400
                /\ UNCHANGED faculty_leaves
           ELSE IF OverlappingApprovedLeaves(faculty_id, start_date, end_date) # {}
           THEN /\ response' = 400
                /\ UNCHANGED faculty_leaves
           ELSE /\ Len(faculty_leaves) < MaxLeaves
                /\ faculty_leaves' = Append(faculty_leaves,
                                            [faculty_id |-> faculty_id,
                                             start_date |-> start_date,
                                             end_date |-> end_date,
                                             is_approved |-> is_approved])
                /\ response' = 201
    /\ UNCHANGED <<snapshotVars, population_size, mutation_rate, conflicts, pc,
                   searchVars, driverVars, enforceVars, semester_id, session, database,
                   timetable_reviews, stop_requested>>

\* PUT /faculty-leaves/<id>/approve: is_approved becomes the value of the body
\* (True when the body has none); no other leave is looked at.  An unknown id is
\* answered with 500.
ApproveFacultyLeave ==
    /\ pc = "serve"
    /\ \E leave_id \in 1..MaxLeaves, is_approved \in BOOLEAN :
           IF leave_id \in DOMAIN faculty_leaves
           THEN /\ faculty_leaves' =
                       [faculty_leaves EXCEPT ![leave_id].is_approved = is_approved]
                /\ response' = 200
           ELSE /\ response' = 500
                /\ UNCHANGED faculty_leaves
    /\ UNCHANGED <<snapshotVars, population_size, mutation_rate, conflicts, pc,
                   searchVars, driverVars, enforceVars, semester_id, session, database,
                   timetable_reviews, stop_requested>>

LeavesNext ==
    \/ PostFacultyLeave
    \/ ApproveFacultyLeave

SpecLeaves == WorkflowInit /\ [][LeavesNext]_vars

-----------------------------------------------------------------------------
(* One generation of the search on a population with non-fixed entries *)

\* A non-fixed theory entry of a day-long duration, as the population holds once
\* the theory scheduler contributes entries.
FreeEntry(day) ==
    [subject_id |-> 1, batch_id |-> 1, faculty_id |-> 1, venue_id |-> 1,
     venue_type |-> "classroom", day |-> day, start_time |-> 0, end_time |-> 23,
     is_fixed |-> FALSE, shift |-> "morning", class_type |-> "theory", priority |-> 2]

FreeEntries == {FreeEntry(d) : d \in {"Monday", "Tuesday"}}

\* The special classes of the semester in this setting: none, or one day-long event
\* of class type 'special' (the default of the column) or 'lab'.
GenSpecialRows ==
    {[subject_id |-> 1, batch_id |-> 1, day_of_week |-> 1, start_time |-> 0,
      end_time |-> 23, class_type |-> c, priority |-> 1] : c \in {"special", "lab"}}

\* A population in which every individual holds the fixed entries of the special
\* classes and one of the given non-fixed entries, each in dicts of its own.
GenPopulation(frees) ==
    \E free \in [1..population_size -> frees] :
        LET size == Len(special_classes) + 1
            individual(i) == Append(SpecialEntries(special_classes), free[i])
        IN  /\ heap = Flatten([i \in 1..population_size |-> individual(i)])
            /\ population = [i \in 1..population_size |->
                                [k \in 1..size |-> (i - 1) * size + k]]

\* The state at the head of the last generation of a search whose earlier
\* generations recorded no best candidate: every individual holds the fixed
\* entries of the special classes and one non-fixed entry, each in dicts of its own.
GenInit ==
    /\ subjects = {1}
    /\ special_classes \in SeqsUpTo(GenSpecialRows, 1)
    /\ batches \in {[b \in {1} |-> r] : r \in BatchOptions}
    /\ faculty \in {[f \in {1} |-> r] : r \in FacultyOptions}
    /\ OptimizerInit
    /\ pc = "evaluate"
    /\ GenPopulation(FreeEntries)
    /\ heap0 = heap
    /\ fitness_scores = <<>>
    /\ generation = generations - 1
    /\ best_individual = <<>>
    /\ best_fitness = 0
    /\ best_fitness_history = [g \in 1..(generations - 1) |-> 0]
    /\ new_population = <<>>
    /\ result = <<>>
    /\ DriverIdle
    /\ EnforceIdle
    /\ RouteIdle
    /\ TablesIdle
    /\ stop_requested = FALSE

GenNext ==
    \/ Evaluate
    \/ Elitism
    \/ Reproduce
    \/ ReproduceRaises
    \/ ReplacePopulation
    \/ Finish

SpecGen == GenInit /\ [][GenNext]_vars

-----------------------------------------------------------------------------
(* A request for one alternative, from the last generation of its run to the
   committed rows *)

\* A non-fixed lab entry of a day-long duration in laboratory 1, as the population
\* holds once the lab scheduler contributes entries.
FreeLabEntry(day) ==
    [subject_id |-> 1, batch_id |-> 1, faculty_id |-> 1, venue_id |-> 1,
     venue_type |-> "laboratory", day |-> day, start_time |-> 0, end_time |-> 23,
     is_fixed |-> FALSE, shift |-> "morning", class_type |-> "lab", priority |-> 2]

RequestFreeEntries == {FreeEntry("Monday"), FreeLabEntry("Monday")}

\* generate_advanced_timetable with num_alternatives = 1, at the head of the last
\* generation of run 0: the driver has saved the parameters, which run 0 leaves as
\* they are.
GenRouteInit ==
    /\ subjects = {1}
    /\ special_classes \in SeqsUpTo(GenSpecialRows, 1)
    /\ batches \in {[b \in {1} |-> r] : r \in BatchOptions}
    /\ faculty \in {[f \in {1} |-> r] : r \in FacultyOptions}
    /\ OptimizerInit
    /\ pc = "evaluate"
    /\ GenPopulation(RequestFreeEntries)
    /\ heap0 = heap
    /\ fitness_scores = <<>>
    /\ generation = generations - 1
    /\ best_individual = <<>>
    /\ best_fitness = 0
    /\ best_fitness_history = [g \in 1..(generations - 1) |-> 0]
    /\ new_population = <<>>
    /\ result = <<>>
    /\ num_solutions = 1
    /\ run_index = 0
    /\ original_mutation_rate = mutation_rate
    /\ original_population_size = population_size
    /\ solutions = <<>>
    /\ run_history = <<>>
    /\ EnforceIdle
    /\ RouteIdle
    /\ TablesIdle
    /\ stop_requested = FALSE

\* `solution, fitness = self.optimize_with_comprehensive_constraints()`: the driver
\* receives the returned list, which it reads as the dicts it refers to.
GenReturn ==
    /\ pc = "returned"
    /\ result' = <<Deref(heap, result[1]), result[2]>>
    /\ run_history' = Append(run_history, result[2])
    /\ pc' = "driver_record"
    /\ UNCHANGED <<snapshotVars, population_size, mutation_rate, conflicts, heap, heap0,
                   population, fitness_scores, generation, best_individual, best_fitness,
                   best_fitness_history, new_population, num_solutions, run_index,
                   original_mutation_rate, original_population_size, solutions,
                   enforceVars, routeVars, stop_requested, tableVars>>

GenRouteNext ==
    \/ Evaluate
    \/ Elitism
    \/ Reproduce
    \/ ReproduceRaises
    \/ ReplacePopulation
    \/ Finish
    \/ GenReturn
    \/ DriverRecord
    \/ DriverReturn
    \/ RoutePersist
    \/ RoutePersistRaises
    \/ RouteCommit
    \/ RouteRollback

SpecGenRoute == GenRouteInit /\ [][GenRouteNext]_vars

-----------------------------------------------------------------------------
(* enhanced_crossover as a function of the parents it is given *)

\* Two parents of any lengths up to MaxParentLen over two dicts, which they may
\* share and repeat.
CrossInit ==
    /\ subjects = {1}
    /\ special_classes = <<>>
    /\ batches \in {[b \in {1} |-> r] : r \in BatchOptions}
    /\ faculty \in {[f \in {1} |-> r] : r \in FacultyOptions}
    /\ OptimizerInit
    /\ population_size = 2
    /\ pc = "cross"
    /\ heap = <<FreeEntry("Monday"), FreeEntry("Tuesday")>>
    /\ heap0 = heap
    /\ population \in [1..2 -> SeqsUpTo(DOMAIN heap, MaxParentLen)]
    /\ fitness_scores = <<>>
    /\ generation = 0
    /\ best_individual = <<>>
    /\ best_fitness = 0
    /\ best_fitness_history = <<>>
    /\ new_population = <<>>
    /\ result = <<>>
    /\ DriverIdle
    /\ EnforceIdle
    /\ RouteIdle
    /\ TablesIdle
    /\ stop_requested = FALSE

\* offspring1, offspring2 = self.enhanced_crossover(parent1, parent2)
CrossCall ==
    /\ pc = "cross"
    /\ \E choice \in CrossoverChoices(population[1], population[2]) :
           /\ choice.kind # "raise"
           /\ new_population' = enhanced_crossover(population[1], population[2], choice)
    /\ pc' = "crossed"
    /\ UNCHANGED <<snapshotVars, population_size, mutation_rate, conflicts, heap, heap0,
                   population, fitness_scores, generation, best_individual, best_fitness,
                   best_fitness_history, result, driverVars, enforceVars, routeVars,
                   stop_requested, tableVars>>

\* The call when random.randint(1, 0) raises ValueError.
CrossRaises ==
    /\ pc = "cross"
    /\ \E choice \in CrossoverChoices(population[1], population[2]) :
           choice.kind = "raise"
    /\ pc' = "raised"
    /\ UNCHANGED <<snapshotVars, population_size, mutation_rate, conflicts, searchVars,
                   driverVars, enforceVars, routeVars, stop_requested, tableVars>>

CrossNext ==
    \/ CrossCall
    \/ CrossRaises

SpecCross == CrossInit /\ [][CrossNext]_vars

-----------------------------------------------------------------------------
(* comprehensive_mutation as a function of the individual it is given *)

\* The entries an individual handed to comprehensive_mutation may hold: fixed or
\* not, theory in a classroom or lab in a laboratory.  Their day and time are
\* outside the working days and the time slots, so that every reassignment shows.
MutableEntries ==
    {[subject_id |-> 1, batch_id |-> 1, faculty_id |-> 1, venue_id |-> 1,
      venue_type |-> IF c = "lab" THEN "laboratory" ELSE "classroom",
      day |-> "Saturday", start_time |-> 7, end_time |-> 8,
      is_fixed |-> f, shift |-> "morning", class_type |-> c, priority |-> 1] :
        f \in BOOLEAN, c \in {"theory", "lab"}}

MutateInit ==
    /\ subjects = {1}
    /\ special_classes = <<>>
    /\ batches \in {[b \in {1} |-> r] : r \in BatchOptions}
    /\ faculty \in {[f \in {1} |-> r] : r \in FacultyOptions}
    /\ OptimizerInit
    /\ population_size = 1
    /\ pc = "mutate"
    /\ heap \in SeqsUpTo(MutableEntries, MaxMutated)
    /\ heap0 = heap
    /\ population = <<[k \in 1..Len(heap) |-> k]>>
    /\ fitness_scores = <<>>
    /\ generation = 0
    /\ best_individual = <<>>
    /\ best_fitness = 0
    /\ best_fitness_history = <<>>
    /\ new_population = <<>>
    /\ result = <<>>
    /\ DriverIdle
    /\ EnforceIdle
    /\ RouteIdle
    /\ TablesIdle
    /\ stop_requested = FALSE

\* offspring = self.comprehensive_mutation(individual): the dicts are changed in
\* place and the list handed in is returned.
MutateCall ==
    /\ pc = "mutate"
    /\ \E plan \in MutationPlans(heap, population[1], mutation_rate) :
           heap' = comprehensive_mutation(heap, population[1], plan)
    /\ new_population' = <<population[1]>>
    /\ pc' = "mutated"
    /\ UNCHANGED <<snapshotVars, population_size, mutation_rate, conflicts, heap0,
                   population, fitness_scores, generation, best_individual, best_fitness,
                   best_fitness_history, result, driverVars, enforceVars, routeVars,
                   stop_requested, tableVars>>

MutateNext == MutateCall

SpecMutate == MutateInit /\ [][MutateNext]_vars

-----------------------------------------------------------------------------
(* Properties of the search (Spec) *)

\* Every candidate the search holds: the population, the offspring being collected,
\* the best-ever individual and the returned one.
Candidates ==
    Range(population) \cup Range(new_population) \cup Range(best_individual)
    \cup (IF result = <<>> THEN {} ELSE {result[1]})

FixedProjection(e) ==
    <<e.day, e.start_time, e.end_time, e.subject_id, e.batch_id, e.venue_id, e.venue_type>>

\* C1: in every candidate of every generation, and in the returned candidate, an
\* entry marked is_fixed has the day, start time, end time, subject, batch and venue
\* it was constructed with: crossover and mutation never change it.
C1_FixedEntriesInvariant ==
    \A c \in Candidates : \A k \in DOMAIN c :
        heap[c[k]].is_fixed =>
            /\ heap0[c[k]].is_fixed
            /\ FixedProjection(heap[c[k]]) = FixedProjection(heap0[c[k]])
            /\ \E i \in DOMAIN special_classes :
                   FixedProjection(heap[c[k]])
                       = FixedProjection(SpecialEntry(special_classes[i]))

\* C1 witness: a candidate of two fixed entries is returned after two generations
\* of crossover and mutation at the mutation rate of the configuration.
C1_Witness ==
    /\ pc = "returned"
    /\ generation >= 2
    /\ population_size >= 2
    /\ mutation_rate > 0
    /\ Len(result[1]) >= 2
    /\ \A k \in DOMAIN result[1] : heap[result[1][k]].is_fixed

FixedCount(c) == Cardinality({k \in DOMAIN c : heap[c[k]].is_fixed})

\* C2: every candidate, and the candidate optimize_with_comprehensive_constraints
\* returns, holds exactly as many is_fixed entries as the semester has special
\* classes: none is dropped (not even over the daily cap) and none is duplicated.
C2_FixedCountPreserved ==
    \A c \in Candidates : FixedCount(c) = Len(special_classes)

\* C2 witness: two special classes on one day of a batch capped at one class a day
\* are both in the candidate returned after a generation of crossover and mutation.
C2_Witness ==
    /\ pc = "returned"
    /\ generation >= 1
    /\ population_size >= 2
    /\ Len(special_classes) = 2
    /\ special_classes[1].day_of_week = special_classes[2].day_of_week
    /\ batches[1].max_classes_per_day = 1
    /\ FixedCount(result[1]) = 2

\* C3: best_fitness never decreases from one step of the search to the next, and
\* after every step it is at least every value recorded in best_fitness_history.
C3_BestFitnessMonotonic ==
    [][/\ best_fitness' >= best_fitness
       /\ \A k \in DOMAIN best_fitness_history' :
              best_fitness' >= best_fitness_history'[k]]_vars

\* C3 witness: a search that recorded the best of several generations and returned
\* a positive best fitness.
C3_Witness ==
    /\ pc = "returned"
    /\ Len(best_fitness_history) >= 2
    /\ best_fitness > 0
    /\ result[2] = best_fitness

\* C4: every fitness the evaluation gives a candidate is at least 0, however many
\* penalties it has: the scores of each generation, the best-ever fitness, the
\* returned fitness and the fitness of every candidate held.
C4_FitnessFloor ==
    /\ \A k \in DOMAIN fitness_scores : fitness_scores[k] >= 0
    /\ best_fitness >= 0
    /\ result # <<>> => result[2] >= 0
    /\ \A c \in Candidates : calculate_comprehensive_fitness(Deref(heap, c)) >= 0

\* C4 witness: an evaluated candidate whose penalties exceed the base and the
\* bonuses, scored 0.
C4_Witness ==
    /\ pc = "elitism"
    /\ \E k \in DOMAIN population :
           /\ FitnessScore(Deref(heap, population[k])) < 0
           /\ fitness_scores[k] = 0

\* Pairs of entries of a schedule in the same venue on the same day at overlapping
\* times.
RoomOverlaps(sched) ==
    {p \in (DOMAIN sched) \X (DOMAIN sched) :
        /\ p[1] < p[2]
        /\ sched[p[1]].venue_type = sched[p[2]].venue_type
        /\ sched[p[1]].venue_id = sched[p[2]].venue_id
        /\ sched[p[1]].day = sched[p[2]].day
        /\ sched[p[1]].start_time < sched[p[2]].end_time
        /\ sched[p[2]].start_time < sched[p[1]].end_time}

\* The schedule with the second entry of its overlapping pair in the other classroom.
Separated(sched) ==
    LET p == CHOOSE q \in RoomOverlaps(sched) : TRUE
    IN  [sched EXCEPT ![p[2]].venue_id = classrooms[2].id]

\* C7 (as the claim states it): a candidate with exactly one pair of entries in the
\* same venue at overlapping times has a room-conflict count of 1 and a fitness
\* lower by weights.room_conflicts than the same candidate without the overlap.
C7_DoubleBookingDetected ==
    \A c \in Range(population) :
        LET sched == Deref(heap, c) IN
        (/\ Cardinality(RoomOverlaps(sched)) = 1
         /\ RoomOverlaps(Separated(sched)) = {}
         /\ FitnessScore(Separated(sched)) >= weights.room_conflicts)
        => /\ check_room_conflicts(sched) = 1
           /\ calculate_comprehensive_fitness(sched)
                  = calculate_comprehensive_fitness(Separated(sched))
                      - weights.room_conflicts

VenueCapacity(entry) ==
    LET venues == IF entry.venue_type = "laboratory" THEN laboratories ELSE classrooms
    IN  venues[CHOOSE v \in DOMAIN venues : venues[v].id = entry.venue_id].capacity

\* The entries of a schedule whose batch has more students than the venue seats.
OverCapacity(sched) ==
    {k \in DOMAIN sched : batches[sched[k].batch_id].student_count > VenueCapacity(sched[k])}

\* The schedule with its over-capacity entry in the larger classroom.
Refitted(sched) ==
    LET k == CHOOSE j \in OverCapacity(sched) : TRUE
    IN  [sched EXCEPT ![k].venue_id = classrooms[2].id]

\* C8 (as the claim states it): a candidate with exactly one entry whose batch is
\* larger than the capacity of its venue has a capacity-violation count of 1 and a
\* fitness lower by weights.capacity_violations than with a large-enough venue.
C8_CapacityViolationDetected ==
    \A c \in Range(population) :
        LET sched == Deref(heap, c) IN
        (/\ Cardinality(OverCapacity(sched)) = 1
         /\ OverCapacity(Refitted(sched)) = {}
         /\ FitnessScore(Refitted(sched)) >= weights.capacity_violations)
        => /\ check_capacity_violations(sched) = 1
           /\ calculate_comprehensive_fitness(sched)
                  = calculate_comprehensive_fitness(Refitted(sched))
                      - weights.capacity_violations

\* C9 (as the claim states it): for a semester with no subjects the search builds
\* no population and returns no solution.
C9_EmptySemesterRejected ==
    subjects = {} => (population = <<>> /\ result = <<>>)

-----------------------------------------------------------------------------
(* Properties of generate_multiple_optimized_solutions (SpecDriver) *)

\* How many of the fitness values of a sequence equal f.
FitnessCount(fitnesses, f) == Cardinality({k \in DOMAIN fitnesses : fitnesses[k] = f})

\* C5: when generate_multiple_optimized_solutions(k) returns, it returns exactly k
\* solutions in order of non-increasing fitness: they are the k runs' results, and
\* the first one has the highest fitness of all runs.
C5_SolutionsOrdered ==
    pc = "driver_done" =>
        /\ Len(solutions) = num_solutions
        /\ \A i, j \in DOMAIN solutions :
               i < j => solutions[i].fitness >= solutions[j].fitness
        /\ \A f \in RunFitnessValues :
               FitnessCount([k \in DOMAIN solutions |-> solutions[k].fitness], f)
                   = FitnessCount(run_history, f)
        /\ \A k \in DOMAIN run_history :
               solutions[1].fitness >= run_history[k]

\* C5 witness: three runs returned increasing fitness, so that the returned order
\* is the reverse of the run order.
C5_Witness ==
    /\ pc = "driver_done"
    /\ num_solutions = 3
    /\ Len(solutions) = 3
    /\ run_history[1] < run_history[2]
    /\ run_history[2] < run_history[3]
    /\ solutions[1].fitness = run_history[3]

-----------------------------------------------------------------------------
(* Properties of enforce_max_classes_per_day (SpecEnforce) *)

OnDay(entries, batch_id, day) ==
    {k \in DOMAIN entries : entries[k].batch_id = batch_id /\ entries[k].day = day}

\* The conflicts recorded for a class of the batch dropped from the day.
DroppedOnDay(batch_id, day) ==
    {k \in DOMAIN conflicts :
        /\ conflicts[k].type = "max_classes_exceeded"
        /\ conflicts[k].batch_id = batch_id
        /\ conflicts[k].day = day
        /\ "subject" \in DOMAIN conflicts[k]}

\* C6: when a schedule places N non-fixed classes of a batch and no fixed ones on a
\* day and the cap of the batch is M < N, the adjusted schedule has at most M
\* classes of the batch on that day, no class of that day appears on another day,
\* and every class that was not retained is recorded as one max_classes_exceeded
\* conflict: N - M conflicts for that batch and day.
C6_DailyCapEnforced ==
    pc = "enforced" =>
        \A b \in DOMAIN batches : \A d \in EntryDays :
            LET N == Cardinality(OnDay(schedule, b, d))
                M == batches[b].max_classes_per_day
            IN  (N > M /\ \A k \in OnDay(schedule, b, d) : ~schedule[k].is_fixed)
                => /\ Cardinality(OnDay(adjusted_schedule, b, d)) <= M
                   /\ Cardinality(OnDay(adjusted_schedule, b, d))
                          + Cardinality(DroppedOnDay(b, d)) = N
                   /\ Cardinality(DroppedOnDay(b, d)) = N - M
                   /\ \A e \in EntryDays \ {d} :
                          Cardinality(OnDay(adjusted_schedule, b, e))
                              <= Cardinality(OnDay(schedule, b, e))

\* C6 witness: three non-fixed classes on the Monday of a batch capped at one class
\* a day; one is retained and two conflicts are recorded.
C6_Witness ==
    /\ pc = "enforced"
    /\ batches[1].max_classes_per_day = 1
    /\ Cardinality(OnDay(schedule, 1, "Monday")) = 3
    /\ \A k \in DOMAIN schedule : ~schedule[k].is_fixed
    /\ Cardinality(OnDay(adjusted_schedule, 1, "Monday")) = 1
    /\ Cardinality(DroppedOnDay(1, "Monday")) = 2

-----------------------------------------------------------------------------
(* Termination and abnormal ends of the search (Spec, SpecDriver) *)

\* C11 (as the claim states it): every loop has its ceiling and every run ends, so
\* that generate_multiple_optimized_solutions(k), once it has ended, has performed
\* exactly k runs.
C11_DriverPerformsAllRuns ==
    pc \in {"driver_done", "raised"} => run_index = num_solutions

\* C12 (as the claim states it): the search never aborts on the shape of the data;
\* no generation step ends in an exception, whatever the lengths of the parents
\* handed to enhanced_crossover.
C12_SearchNeverAborts == pc # "raised"

-----------------------------------------------------------------------------
(* Coverage of the demand by the constructed schedule (Spec) *)

\* The hours a schedule gives to a subject for a batch, whatever the class type.
CoveredHours(sched, subject_id, batch_id) ==
    SumSeq([k \in DOMAIN sched |->
        IF sched[k].subject_id = subject_id /\ sched[k].batch_id = batch_id
        THEN DurationHours(sched[k]) ELSE 0])

\* The conflict types that would explain hours left unscheduled.
ShortfallTypes == {"lab_conflict", "elective_sync_violation", "unmet_hours"}

\* C13 (as the claim states it): for every constructed candidate, every subject of
\* the semester and every batch, either the candidate covers the weekly theory
\* hours of the subject or self.conflicts holds a record for the shortfall.
C13_EveryGapExplained ==
    \A c \in Range(population) : \A s \in subjects : \A b \in DOMAIN batches :
        \/ CoveredHours(Deref(heap, c), s, b) >= theory_hours_per_week(s)
        \/ \E k \in DOMAIN conflicts : conflicts[k].type \in ShortfallTypes

-----------------------------------------------------------------------------
(* Placement of the special classes (SpecRoute) *)

\* C14 (as the claim states it): every special class with day_of_week d in 1..7 has,
\* in every solution, a fixed entry on the day named d with its start and end time,
\* and in every persisted timetable a fixed ScheduleEntry row with day_of_week = d
\* and the same times.
C14_SpecialClassesVerbatim ==
    \A i \in DOMAIN special_classes :
        LET special == special_classes[i] IN
        /\ \A n \in DOMAIN solutions :
               \E k \in DOMAIN solutions[n].schedule :
                   LET entry == solutions[n].schedule[k] IN
                   /\ entry.is_fixed
                   /\ entry.day = convert_day_to_name(special.day_of_week)
                   /\ entry.start_time = special.start_time
                   /\ entry.end_time = special.end_time
        /\ \A t \in DOMAIN database :
               \E k \in DOMAIN database[t].entries :
                   LET row == database[t].entries[k] IN
                   /\ row.is_fixed
                   /\ row.day_of_week = special.day_of_week
                   /\ row.start_time = special.start_time
                   /\ row.end_time = special.end_time

-----------------------------------------------------------------------------
(* The search under an external stop signal (SpecCancel) *)

\* The environment raises the stop signal while the run is in progress.  No
\* statement of the search reads it.
RequestStop ==
    /\ ~stop_requested
    /\ pc \notin {"returned", "raised"}
    /\ stop_requested' = TRUE
    /\ UNCHANGED <<snapshotVars, population_size, mutation_rate, conflicts, pc,
                   searchVars, driverVars, enforceVars, routeVars, tableVars>>

CancelNext ==
    \/ Next
    \/ RequestStop

SpecCancel == Init /\ [][CancelNext]_vars

\* C15 (as the claim states it): once the stop signal is raised, the search
\* observes it at the next generation boundary: at the head of the generation loop
\* it evaluates nothing, starts no other generation and leaves the best-ever
\* candidate and fitness as they are.
C15_StopObserved ==
    [][(stop_requested /\ pc = "evaluate")
          => /\ best_fitness_history' = best_fitness_history
             /\ pc' \in {"evaluate", "final"}
             /\ UNCHANGED <<best_individual, best_fitness>>]_vars

-----------------------------------------------------------------------------
(* The conflicts packaged with a solution (SpecDriver) *)

\* C16 (as the claim states it): the conflict list of every solution holds the
\* conflicts of the construction of its candidate, each exactly once, and
\* metrics.total_conflicts is the length of that list.
C16_ConflictsPaired ==
    \A n \in DOMAIN solutions :
        /\ solutions[n].conflicts = create_comprehensive_schedule.conflicts
        /\ solutions[n].metrics.total_conflicts = Len(solutions[n].conflicts)

-----------------------------------------------------------------------------
(* Frame of the evaluation (Spec) *)

\* C17: evaluating the population changes nothing but the scores and the best-ever
\* tracking: the entries of every schedule, self.conflicts, the population, the
\* snapshot and the search parameters are left as they were, and every score is the
\* value calculate_comprehensive_fitness gives again for the same schedule after
\* the evaluation.
C17_EvaluationPure ==
    [][pc = "evaluate"
          => /\ UNCHANGED <<heap, conflicts, population, population_size, mutation_rate,
                            snapshotVars>>
             /\ \A k \in DOMAIN fitness_scores' :
                    fitness_scores'[k]
                        = calculate_comprehensive_fitness(Deref(heap', population'[k]))]_vars

\* C17 witness: a population of two-entry candidates with recorded conflicts has
\* been evaluated in a second generation.
C17_Witness ==
    /\ pc = "elitism"
    /\ generation >= 1
    /\ conflicts # <<>>
    /\ Len(fitness_scores) = Len(population)
    /\ \A k \in DOMAIN population : Len(population[k]) >= 2

-----------------------------------------------------------------------------
(* Elites and the best-ever candidate under in-place mutation (SpecGen) *)

\* The generation step has replaced the population.
Replaced == pc = "final" /\ generation = generations /\ fitness_scores # <<>>

EliteCount == Max2(1, population_size \div EliteDivisor)

BestOf(h, individuals) ==
    MaxOfSeq([k \in DOMAIN individuals |->
                 calculate_comprehensive_fitness(Deref(h, individuals[k]))])

-----------------------------------------------------------------------------
(* What a call of comprehensive_mutation changes (SpecMutate) *)

\* The aspects of an entry that differ between two versions of it.
ChangedAspects(old, new) ==
    (IF new.day # old.day THEN {"day"} ELSE {})
    \cup (IF <<new.start_time, new.end_time>> # <<old.start_time, old.end_time>>
          THEN {"time"} ELSE {})
    \cup (IF <<new.venue_id, new.venue_type>> # <<old.venue_id, old.venue_type>>
          THEN {"venue"} ELSE {})

VenueIds(venues) == {venues[v].id : v \in DOMAIN venues}

\* C20: a call of comprehensive_mutation returns the list it was given, with the
\* same entries in the same order; in each entry at most one of day, time and venue
\* differs and no other field does; a fixed entry is as it was; a new day is a
\* working day, a new time a configured time slot, and a new venue a laboratory
\* for a lab entry and a classroom for any other.
C20_MutationOneAspect ==
    pc = "mutated" =>
        /\ new_population = population
        /\ DOMAIN heap = DOMAIN heap0
        /\ \A id \in DOMAIN heap :
               LET old == heap0[id]
                   new == heap[id]
                   changed == ChangedAspects(old, new)
               IN  /\ Cardinality(changed) <= 1
                   /\ [new EXCEPT !.day = old.day, !.start_time = old.start_time,
                                  !.end_time = old.end_time, !.venue_id = old.venue_id,
                                  !.venue_type = old.venue_type] = old
                   /\ old.is_fixed => new = old
                   /\ "day" \in changed => new.day \in Range(WORKING_DAYS)
                   /\ "time" \in changed
                          => <<new.start_time, new.end_time>> \in Range(TIME_SLOTS)
                   /\ "venue" \in changed
                          => IF old.class_type = "lab"
                             THEN /\ new.venue_type = "laboratory"
                                  /\ new.venue_id \in VenueIds(laboratories)
                             ELSE /\ new.venue_type = "classroom"
                                  /\ new.venue_id \in VenueIds(classrooms)

\* C20 witness: a call that gave one non-fixed entry a new day and another a new
\* venue.
C20_Witness ==
    /\ pc = "mutated"
    /\ \E a, b \in DOMAIN heap :
           /\ ~heap0[a].is_fixed
           /\ ~heap0[b].is_fixed
           /\ ChangedAspects(heap0[a], heap[a]) = {"day"}
           /\ ChangedAspects(heap0[b], heap[b]) = {"venue"}

-----------------------------------------------------------------------------
(* Venue type and class type of the entries (SpecGen) *)

\* C21 (as the claim states it): in every candidate, an entry of class type 'lab'
\* is in a venue of type 'laboratory' and an entry of any other class type in a
\* venue of type 'classroom', the fixed entries of the special classes included.
C21_VenueMatchesKind ==
    \A c \in Candidates : \A k \in DOMAIN c :
        heap[c[k]].venue_type
            = IF heap[c[k]].class_type = "lab" THEN "laboratory" ELSE "classroom"

-----------------------------------------------------------------------------
(* Well-formed entries and rows (SpecGenRoute) *)

WellFormedEntry(entry) ==
    /\ entry.end_time > entry.start_time
    /\ entry.venue_type \in {"classroom", "laboratory"}

\* The ScheduleEntry rows added to the session or committed.
PersistedEntryRows ==
    UNION {Range(row.entries) : row \in Range(session) \cup Range(database)}

\* C22: with special classes that end after they start, every entry of every
\* candidate of the generation, and of the packaged solution, ends after it starts
\* and has a venue type of 'classroom' or 'laboratory', and every ScheduleEntry row
\* the route builds has exactly one of classroom_id and laboratory_id set.
C22_EntriesWellFormed ==
    /\ \A c \in Range(population) \cup Range(new_population) \cup Range(best_individual) :
           \A k \in DOMAIN c : WellFormedEntry(heap[c[k]])
    /\ \A n \in DOMAIN solutions : \A k \in DOMAIN solutions[n].schedule :
           WellFormedEntry(solutions[n].schedule[k])
    /\ \A row \in PersistedEntryRows :
           /\ (row.classroom_id # 0) # (row.laboratory_id # 0)
           /\ row.end_time > row.start_time

\* C22 witness: the committed timetable holds a fixed row in a classroom and a row
\* of a lab entry in a laboratory that the mutation gave a configured time slot.
C22_Witness ==
    /\ pc = "route_done"
    /\ response = 200
    /\ \E t \in DOMAIN database : \E a, b \in DOMAIN database[t].entries :
           /\ database[t].entries[a].is_fixed
           /\ database[t].entries[a].classroom_id # 0
           /\ ~database[t].entries[b].is_fixed
           /\ database[t].entries[b].laboratory_id # 0
           /\ <<database[t].entries[b].start_time, database[t].entries[b].end_time>>
                  \in Range(TIME_SLOTS)

-----------------------------------------------------------------------------
(* What a call of enhanced_crossover returns (SpecCross) *)

\* a[:c] + b[c:] of Python, position by position.
TailSwap(a, b, c) == [k \in 1..Len(b) |-> IF k <= c THEN a[k] ELSE b[k]]

Occurrences(s, x) == Cardinality({k \in DOMAIN s : s[k] = x})

\* C23: a call of enhanced_crossover that returns gives either the parents
\* themselves, element by element, or, for a point c with
\* 1 <= c < min(len(p1), len(p2)), offspring1 = p1[:c] + p2[c:] and
\* offspring2 = p2[:c] + p1[c:]; either way the two offspring together hold the
\* entries of the two parents, each as often, their lengths add up to the lengths
\* of the parents, and the parents and their entries are left as they were.
C23_CrossoverTailSwap ==
    [][(pc = "cross" /\ pc' = "crossed")
          => LET p1 == population[1]
                 p2 == population[2]
                 o1 == new_population'[1]
                 o2 == new_population'[2]
             IN  /\ UNCHANGED <<population, heap>>
                 /\ Len(new_population') = 2
                 /\ \/ o1 = p1 /\ o2 = p2
                    \/ \E c \in 1..(Min2(Len(p1), Len(p2)) - 1) :
                           /\ o1 = TailSwap(p1, p2, c)
                           /\ o2 = TailSwap(p2, p1, c)
                 /\ Len(o1) + Len(o2) = Len(p1) + Len(p2)
                 /\ \A x \in DOMAIN heap :
                        Occurrences(o1 \o o2, x) = Occurrences(p1 \o p2, x)]_vars

\* C23 witness: crossover was applied to parents of lengths 3 and 2 and gave
\* offspring that differ from them.
C23_Witness ==
    /\ pc = "crossed"
    /\ Len(population[1]) = 3
    /\ Len(population[2]) = 2
    /\ new_population[1] # population[1]
    /\ new_population[2] # population[2]

-----------------------------------------------------------------------------
(* The parameters and the conflicts from run to run (SpecDriver) *)

\* C24: run i is made with mutation_rate = base + 0.02 * i and population_size =
\* base + 5 * i; the step that ends a run puts both back and empties
\* self.conflicts, so that between the runs and when the driver has returned the
\* parameters are those from before the call; the conflicts packaged with a
\* solution are the records of the construction of its own run's population and no
\* others.  (A run that raises ends the driver within the run, with the
\* parameters of that run.)
C24_RunIsolation ==
    [][/\ pc' \in {"driver_run", "driver_record", "raised"}
          => /\ mutation_rate' = original_mutation_rate' + MutationRateStep * run_index'
             /\ population_size'
                    = original_population_size' + PopulationSizeStep * run_index'
       /\ pc' \in {"driver_loop", "driver_done"}
          => /\ mutation_rate' = GA_MUTATION_RATE
             /\ conflicts' = <<>>
             /\ run_index' > 0 => population_size' = original_population_size'
       /\ (pc = "driver_loop" /\ pc' = "driver_run")
          => /\ original_mutation_rate' = mutation_rate
             /\ original_population_size' = population_size
       /\ (pc # "driver_loop" \/ run_index > 0)
          => /\ original_population_size' = original_population_size
             /\ original_mutation_rate' = original_mutation_rate
       /\ pc = "driver_record"
          => /\ Len(solutions') = Len(solutions) + 1
             /\ solutions'[Len(solutions')].conflicts = BuildConflicts(population_size)
             /\ SubSeq(solutions', 1, Len(solutions)) = solutions]_vars

\* C24 witness: the driver has returned three solutions, each with the conflicts of
\* its own run (more of them run by run, as the population grows), and the
\* parameters are those of the configuration.
C24_Witness ==
    /\ pc = "driver_done"
    /\ num_solutions = 3
    /\ Len(solutions) = 3
    /\ \A n \in DOMAIN solutions : solutions[n].conflicts # <<>>
    /\ \A n, m \in DOMAIN solutions :
           n # m => Len(solutions[n].conflicts) # Len(solutions[m].conflicts)
    /\ mutation_rate = GA_MUTATION_RATE
    /\ population_size = original_population_size
    /\ conflicts = <<>>

-----------------------------------------------------------------------------
(* The classroom utilization bonus (Spec) *)

\* The bonus by bands of the utilization rate u = usage / possible, in hundredths:
\* 20 within [MIN, MAX], 15 within [0.8 * MIN, 1.1 * MAX], 5 outside both.
UtilizationBand(usage, possible) ==
    IF MIN_CLASSROOM_UTILIZATION * possible <= 100 * usage
       /\ 100 * usage <= MAX_CLASSROOM_UTILIZATION * possible THEN 20
    ELSE IF MIN_CLASSROOM_UTILIZATION * 8 * possible <= 1000 * usage
            /\ 1000 * usage <= MAX_CLASSROOM_UTILIZATION * 11 * possible THEN 15
    ELSE 5

ClassroomEntries(sched) == {k \in DOMAIN sched : sched[k].venue_type = "classroom"}

\* C25 (as the claim states it): for every candidate,
\* calculate_classroom_utilization_score returns the bonus of the band in which
\* its utilization rate lies, the minimal bonus for a candidate with no classroom
\* entry at all included.
C25_UtilizationBands ==
    \A c \in Range(population) :
        LET sched == Deref(heap, c) IN
        calculate_classroom_utilization_score(sched)
            = UtilizationBand(Cardinality(ClassroomEntries(sched)),
                              Len(classrooms) * Len(WORKING_DAYS) * Len(TIME_SLOTS))

-----------------------------------------------------------------------------
(* The daily cap in construction and in evaluation (SpecEnforce) *)

ConflictsWithReason(reason) ==
    {k \in DOMAIN conflicts : conflicts[k].reason = reason}

\* C26: for the list returned by a call of enforce_max_classes_per_day,
\* check_max_classes_per_day_violations gives the number of conflicts the call
\* recorded for fixed entries kept over the cap; it gives 0 when the list handed in
\* has no fixed entry; and the call recorded one 'could not reschedule' conflict
\* for every entry it removed.
C26_EnforceAgreesWithCheck ==
    pc = "enforced" =>
        /\ check_max_classes_per_day_violations(adjusted_schedule)
               = Cardinality(ConflictsWithReason("Fixed class caused limit exceeded"))
        /\ (\A k \in DOMAIN schedule : ~schedule[k].is_fixed)
               => check_max_classes_per_day_violations(adjusted_schedule) = 0
        /\ Len(schedule) - Len(adjusted_schedule)
               = Cardinality(ConflictsWithReason("Could not reschedule within daily limit"))

\* C26 witness: of two fixed classes and one other on the Monday of a batch capped
\* at one class a day, both fixed ones are kept, which the check counts as one
\* violation, and the other is removed.
C26_Witness ==
    /\ pc = "enforced"
    /\ batches[1].max_classes_per_day = 1
    /\ Len(schedule) = 3
    /\ Cardinality({k \in OnDay(schedule, 1, "Monday") : schedule[k].is_fixed}) = 2
    /\ Len(adjusted_schedule) = 2
    /\ check_max_classes_per_day_violations(adjusted_schedule) = 1
    /\ Cardinality(ConflictsWithReason("Could not reschedule within daily limit")) = 1

-----------------------------------------------------------------------------
(* The size of the population (Spec) *)

\* C27: at the head of every generation, and when the generation loop has ended,
\* the population holds exactly population_size candidates, and while a generation
\* refills the next population it holds at most one candidate too many.
C27_PopulationSize ==
    /\ pc \in {"evaluate", "elitism", "refill", "final", "returned"}
          => Len(population) = population_size
    /\ Len(new_population) <= population_size + 1

\* C27 witness: a second generation starts with two candidates, after a generation
\* that carried one elite over and added two offspring.
C27_Witness ==
    /\ pc = "evaluate"
    /\ generation >= 1
    /\ population_size = 2
    /\ Len(population) = 2

-----------------------------------------------------------------------------
(* Approval of timetables (SpecWorkflow) *)

\* C28: every timetable whose status is 'approved' has approved_by and approved_at
\* set; a generation request adds its timetables as drafts and leaves the others as
\* they are; a review with status 'approved', 'rejected' or 'changes_requested'
\* gives its timetable the status 'approved', 'rejected' or 'under_review', and a
\* review with any other status leaves the status as it is.
C28_ApprovedHaveApprover ==
    [][/\ \A t \in DOMAIN database' :
              database'[t].status = "approved"
                  => database'[t].approved_by # 0 /\ database'[t].approved_at # 0
       /\ \A t \in DOMAIN database' \ DOMAIN database :
              database'[t].status = "draft"
       /\ SubSeq(database', 1, Len(database)) # database
              => Len(database') = Len(database)
       /\ Len(timetable_reviews') > Len(timetable_reviews)
              => LET review == timetable_reviews'[Len(timetable_reviews')]
                     t == review.timetable_id
                 IN  /\ \A u \in DOMAIN database \ {t} : database'[u] = database[u]
                     /\ database'[t].status =
                            CASE review.review_status = "approved" -> "approved"
                              [] review.review_status = "rejected" -> "rejected"
                              [] review.review_status = "changes_requested"
                                     -> "under_review"
                              [] OTHER -> database[t].status]_vars

\* C28 witness: one timetable was approved by a PUT, and another was approved and
\* then reviewed with 'changes_requested', which left its approver in place.
C28_Witness ==
    /\ Len(database) = 2
    /\ database[1].status = "approved"
    /\ database[1].approved_by \in Users
    /\ timetable_reviews # <<>>
    /\ timetable_reviews[1].timetable_id = 2
    /\ timetable_reviews[1].review_status = "changes_requested"
    /\ database[2].status = "under_review"
    /\ database[2].approved_by \in Users

-----------------------------------------------------------------------------
(* Approved leaves (SpecLeaves) *)

\* C29 (as the claim states it): no faculty member has two approved leaves whose
\* date ranges overlap, and every stored leave ends on or after the day it starts.
C29_NoOverlappingApprovedLeaves ==
    /\ \A k \in DOMAIN faculty_leaves :
           faculty_leaves[k].end_date >= faculty_leaves[k].start_date
    /\ \A j, k \in DOMAIN faculty_leaves :
           (/\ j # k
            /\ faculty_leaves[j].faculty_id = faculty_leaves[k].faculty_id
            /\ faculty_leaves[j].is_approved
            /\ faculty_leaves[k].is_approved)
           => \/ faculty_leaves[j].end_date < faculty_leaves[k].start_date
              \/ faculty_leaves[k].end_date < faculty_leaves[j].start_date

-----------------------------------------------------------------------------
(* What a generation request persists (SpecRoute) *)

\* C30: nothing is committed before the request is answered; a request answered
\* 200 has committed, for every solution in the order returned, a Timetable row
\* with one ScheduleEntry row per entry of its schedule and one ScheduleConflict row
\* per conflict; a request without semester_id is answered 400 before any run is
\* made; a request in which a step raised is answered 500; and a request answered
\* 400 or 500 has committed no row and left none in the session.
C30_AllOrNothing ==
    /\ pc # "route_done" => database = <<>> /\ response = 0
    /\ pc = "route_done" =>
           /\ session = <<>>
           /\ response \in {200, 400, 500}
           /\ response = 400 <=> semester_id = 0
           /\ response = 400 => run_index = 0 /\ solutions = <<>> /\ conflicts = <<>>
           /\ response \in {400, 500} => database = <<>>
           /\ response = 200 =>
                  /\ Len(solutions) = num_solutions
                  /\ Len(database) = Len(solutions)
                  /\ \A n \in DOMAIN solutions :
                         /\ database[n].fitness_score = solutions[n].fitness
                         /\ Len(database[n].entries) = Len(solutions[n].schedule)
                         /\ Len(database[n].conflicts) = Len(solutions[n].conflicts)

\* C30 witness: the driver returned two or more solutions with entries, the
\* persistence loop raised, and the request was answered 500.
C30_Witness ==
    /\ pc = "route_done"
    /\ response = 500
    /\ Len(solutions) >= 2
    /\ run_index = num_solutions
    /\ \A n \in DOMAIN solutions : solutions[n].schedule # <<>>

=============================================================================
